---- MODULE Spec2Model ----
(***************************************************************************)
(* A model of the IGA save/load library: the in-memory IGAData, the        *)
(* IGACreator builder, the IGAData::isValid validator and the block codec  *)
(* (IGAWriter / IGAReader).                                                *)
(*                                                                         *)
(* Number carriers.  The model checker's integers are 32-bit signed, so a  *)
(* uint32_t is carried as the integer congruent to it modulo 2^32 in       *)
(* -2^31 .. 2^31-1 (0xFFFFFFFF is -1, 0xFFFFFFFE is -2, 0x80000000 is      *)
(* -2^31); the U32 operators compare and add the unsigned values.  A       *)
(* size_t is a natural number; every size that occurs is below 2^31.       *)
(*                                                                         *)
(* Arrays.  A std::vector is carried run-length encoded: a sequence of     *)
(* runs [v |-> element, n |-> repetitions], n >= 1, adjacent runs holding  *)
(* different elements.  Every vector has exactly one such encoding, so     *)
(* equality of encodings is equality of contents, and vectors of tens of   *)
(* millions of elements stay small values.                                 *)
(***************************************************************************)
EXTENDS Integers, Sequences, FiniteSets, TLC

VARIABLES
    geometry,       \* the IGAData: the builder's *mParent, or the model validated / written
    mCoeffLookup,   \* IGACreator::mCoeffLookup, a set of [key, val] entries
    mLayoutLookup,  \* IGACreator::mLayoutLookup, a set of [key, val] entries
    call,           \* the last operation called, with its arguments
    ret,            \* what that operation returned
    failed,         \* some call so far returned INVALID_INDEX
    fault,          \* TRUE once an operation has trapped (undefined behaviour)
    dictLog,        \* observer: <<vector, index, nth>> for the getDictionaryIndex calls
                    \* made with one vector, the vector of an arbitrarily chosen call
    layoutLog,      \* observer: <<layout, index, nth>>, likewise for getLayoutIndex
                    \* (nth: 1 for the chosen call, 2 for a later call with its argument)
    stream          \* the bytes of the container written so far: the TSS header,
                    \* then one segment per block

vars == <<geometry, mCoeffLookup, mLayoutLookup, call, ret, failed, fault, dictLog,
          layoutLog, stream>>

----------------------------------------------------------------------------
(* 32-bit unsigned arithmetic on the carriers *)

MaxInt32 == (1073741823 + 1073741823) + 1
MinInt32 == (-MaxInt32) - 1

INVALID_INDEX == -1

\* a < b as unsigned 32-bit values
U32Lt(a, b) == IF (a >= 0) = (b >= 0) THEN a < b ELSE a >= 0

\* a + b modulo 2^32
U32Add(a, b) ==
    IF a >= 0 /\ b >= 0
    THEN IF a > MaxInt32 - b THEN (a - MaxInt32 - 1) + (b - MaxInt32 - 1) ELSE a + b
    ELSE IF a < 0 /\ b < 0
         THEN IF a < MinInt32 - b THEN (a + MaxInt32 + 1) + (b + MaxInt32 + 1) ELSE a + b
         ELSE a + b

\* a - b modulo 2^32
U32Sub(a, b) == IF b = MinInt32 THEN U32Add(a, b) ELSE U32Add(a, -b)

\* size_t n >= uint32_t u, and uint32_t u >= size_t n  (n < 2^31)
SizeGeU32(n, u) == u >= 0 /\ n >= u
U32GeSize(u, n) == u < 0 \/ u >= n
U32GtSize(u, n) == u < 0 \/ u > n

\* the low and the high half of a uint32_t (x & 0xFFFF, x >> 16)
Low16(x)  == x % 65536
High16(x) == IF x >= 0 THEN x \div 65536 ELSE (x \div 65536) + 65536

\* C++ integer division of a non-negative a by a non-zero b (truncating)
TruncDiv(a, b) == IF b > 0 THEN a \div b ELSE -(a \div (-b))

----------------------------------------------------------------------------
(* doubles: <<"fin", v>>, <<"inf", sign>>, <<"nan", 0>> *)

D(v)   == <<"fin", v>>
PosInf == <<"inf", 1>>
NegInf == <<"inf", -1>>
NaN    == <<"nan", 0>>

finite(x) == x[1] = "fin"

\* x < y on doubles (false whenever either is NaN)
DoubleLess(x, y) ==
    CASE x[1] = "nan" \/ y[1] = "nan" -> FALSE
      [] x[1] = "fin" /\ y[1] = "fin" -> x[2] < y[2]
      [] x[1] = "inf" /\ y[1] = "inf" -> x[2] < y[2]
      [] x[1] = "inf"                 -> x[2] < 0
      [] OTHER                        -> y[2] > 0

\* x >= 0.0 and x < 0.0
GeZero(x) == x[1] # "nan" /\ ~DoubleLess(x, D(0))
LtZero(x) == DoubleLess(x, D(0))

----------------------------------------------------------------------------
(* std::vector, run-length encoded *)

RECURSIVE VSize(_)
VSize(vec) == IF vec = <<>> THEN 0 ELSE Head(vec).n + VSize(Tail(vec))

\* n copies of x
Rep(x, n) == IF n = 0 THEN <<>> ELSE <<[v |-> x, n |-> n]>>

\* vec followed by n copies of x
VPushN(vec, x, n) ==
    IF n = 0 THEN vec
    ELSE IF vec # <<>> /\ vec[Len(vec)].v = x
         THEN [vec EXCEPT ![Len(vec)].n = @ + n]
         ELSE Append(vec, [v |-> x, n |-> n])

\* push_back
VPush(vec, x) == VPushN(vec, x, 1)

\* insert( end(), b.begin(), b.end() )
RECURSIVE VCat(_, _)
VCat(a, b) == IF b = <<>> THEN a ELSE VCat(VPushN(a, Head(b).v, Head(b).n), Tail(b))

\* the vector holding the elements of the plain sequence s
RECURSIVE FromSeq(_)
FromSeq(s) == IF s = <<>> THEN <<>> ELSE VCat(Rep(Head(s), 1), FromSeq(Tail(s)))

\* vec[i], 0-based, for i < VSize(vec)
RECURSIVE VAt(_, _)
VAt(vec, i) == IF i < Head(vec).n THEN Head(vec).v ELSE VAt(Tail(vec), i - Head(vec).n)

\* back()
VBack(vec) == vec[Len(vec)].v

\* the index of the first element of run k
RECURSIVE VOffset(_, _)
VOffset(vec, k) == IF k = 1 THEN 0 ELSE vec[k - 1].n + VOffset(vec, k - 1)

\* the index of the first element satisfying Bad, or -1 when there is none
VFirst(vec, Bad(_)) ==
    LET ks == {k \in 1..Len(vec) : Bad(vec[k].v)}
    IN IF ks = {} THEN -1
       ELSE VOffset(vec, CHOOSE k \in ks : \A j \in ks : k <= j)

----------------------------------------------------------------------------
(* IGAData.h: the entities and the aggregate *)

Point3d(x, y, z, w) == [x |-> x, y |-> y, z |-> z, w |-> w]

Piece2D(st_order, s_index, maybe_t_index, pt_index) ==
    [st_order |-> st_order, s_index |-> s_index,
     maybe_t_index |-> maybe_t_index, pt_index |-> pt_index]

FaceLayout(r0, r1, r2, r3, r4) == [side_range |-> <<r0, r1, r2, r3, r4>>]

\* FaceLayout(): side_range = { 0, 1, 2, 3, 4 }
DefaultLayout == FaceLayout(0, 1, 2, 3, 4)

\* side_range[ i ], 0-based
SideRange(layout, i) == layout.side_range[i + 1]

Elem(piece_end_index, layout_index, edge_end_index) ==
    [piece_end_index |-> piece_end_index, layout_index |-> layout_index,
     edge_end_index |-> edge_end_index]

\* the characters of a string, as a vector of char; a char is its ASCII code
Chars(s) == FromSeq(s)

\* IGAData(): every vector empty, mSrfType "unknown"
EmptyData ==
    [mSrfType   |-> Chars(<<117, 110, 107, 110, 111, 119, 110>>),
     mCoeffs    |-> <<>>,
     mPoints    |-> <<>>,
     mPieces    |-> <<>>,
     mEdges     |-> <<>>,
     mIntervals |-> <<>>,
     mLayouts   |-> <<>>,
     mElems     |-> <<>>]

\* std::lexicographical_compare on two arrays of uint32_t
RECURSIVE LexLessU32(_, _)
LexLessU32(s, t) ==
    IF s = <<>> THEN t # <<>>
    ELSE IF t = <<>> THEN FALSE
    ELSE IF U32Lt(Head(s), Head(t)) THEN TRUE
    ELSE IF U32Lt(Head(t), Head(s)) THEN FALSE
    ELSE LexLessU32(Tail(s), Tail(t))

\* FaceLayout::operator<
FaceLayoutLess(a, b) == LexLessU32(a.side_range, b.side_range)

\* the vector without its first m elements, m at most the first run's length
DropFront(vec, m) ==
    IF Head(vec).n = m THEN Tail(vec)
    ELSE <<[Head(vec) EXCEPT !.n = @ - m]>> \o Tail(vec)

\* CoeffVectorLessThan::operator(): std::lexicographical_compare on doubles
RECURSIVE CoeffVectorLessThan(_, _)
CoeffVectorLessThan(a, b) ==
    IF a = <<>> THEN b # <<>>
    ELSE IF b = <<>> THEN FALSE
    ELSE IF DoubleLess(Head(a).v, Head(b).v) THEN TRUE
    ELSE IF DoubleLess(Head(b).v, Head(a).v) THEN FALSE
    ELSE LET m == IF Head(a).n < Head(b).n THEN Head(a).n ELSE Head(b).n
         IN CoeffVectorLessThan(DropFront(a, m), DropFront(b, m))

\* std::map::find: the entries whose key is equivalent to k under Less
MapFind(map, k, Less(_, _)) == {e \in map : ~Less(e.key, k) /\ ~Less(k, e.key)}

\* std::map::operator[]= : the entry for k set to val
MapPut(map, k, val, Less(_, _)) ==
    (map \ MapFind(map, k, Less)) \cup {[key |-> k, val |-> val]}

----------------------------------------------------------------------------
(* IGACreator.  A builder state c is [parent, mCoeffLookup, mLayoutLookup]; *)
(* each operation yields [c |-> the state after, ret |-> the value returned]. *)

\* the largest order a Piece2D may record, 0x7FFF
MaxOrder == 32767

\* n >= vec.max_size() and n > vec.max_size(): max_size() exceeds every size
\* below 2^31
AtMaxSize(n)   == FALSE
OverMaxSize(n) == FALSE

Creator(parent, coeffLookup, layoutLookup) ==
    [parent |-> parent, mCoeffLookup |-> coeffLookup, mLayoutLookup |-> layoutLookup]

\* IGACreator::IGACreator: parent->clear(), both lookup tables empty
NewCreator == Creator(EmptyData, {}, {})

\* safeAppend: [vec |-> the vector after, ret |-> the index added or INVALID_INDEX]
safeAppend(vec, value) ==
    IF SizeGeU32(VSize(vec), U32Sub(INVALID_INDEX, 1)) \/ AtMaxSize(VSize(vec))
    THEN [vec |-> vec, ret |-> INVALID_INDEX]
    ELSE [vec |-> VPush(vec, value), ret |-> VSize(vec)]

\* a faulty addCoeffs that inserts the vector at the front of mCoeffs; C29's
\* property must tell it from the real one
addCoeffsAtFront(c, coeffs) ==
    LET mCoeffs == c.parent.mCoeffs
        total   == VSize(mCoeffs) + VSize(coeffs)
    IN IF SizeGeU32(total, INVALID_INDEX) \/ OverMaxSize(total) \/ VSize(coeffs) >= MaxOrder
       THEN [c |-> c, ret |-> INVALID_INDEX]
       ELSE [c   |-> [c EXCEPT !.parent.mCoeffs = VCat(coeffs, mCoeffs)],
             ret |-> VSize(mCoeffs)]

addCoeffs(c, coeffs) ==
    LET mCoeffs == c.parent.mCoeffs
        total   == VSize(mCoeffs) + VSize(coeffs)
    IN IF SizeGeU32(total, INVALID_INDEX) \/ OverMaxSize(total) \/ VSize(coeffs) >= MaxOrder
       THEN [c |-> c, ret |-> INVALID_INDEX]
       ELSE [c   |-> [c EXCEPT !.parent.mCoeffs = VCat(mCoeffs, coeffs)],
             ret |-> VSize(mCoeffs)]

addEdge(c, elem, knot_interval) ==
    LET e  == safeAppend(c.parent.mEdges, elem)
        c1 == [c EXCEPT !.parent.mEdges = e.vec]
    IN IF GeZero(knot_interval)
       THEN LET i  == safeAppend(c1.parent.mIntervals, knot_interval)
                c2 == [c1 EXCEPT !.parent.mIntervals = i.vec]
            IN IF e.ret # i.ret
               THEN [c |-> c2, ret |-> INVALID_INDEX]
               ELSE [c |-> c2, ret |-> e.ret]
       ELSE IF c1.parent.mIntervals # <<>>
            THEN [c |-> c1, ret |-> INVALID_INDEX]
            ELSE [c |-> c1, ret |-> e.ret]

addElem(c, elem) ==
    LET r == safeAppend(c.parent.mElems, elem)
    IN [c |-> [c EXCEPT !.parent.mElems = r.vec], ret |-> r.ret]

addLayout(c, layout) ==
    LET r == safeAppend(c.parent.mLayouts, layout)
    IN [c |-> [c EXCEPT !.parent.mLayouts = r.vec], ret |-> r.ret]

addPiece(c, piece) ==
    LET r == safeAppend(c.parent.mPieces, piece)
    IN [c |-> [c EXCEPT !.parent.mPieces = r.vec], ret |-> r.ret]

addPoint(c, pt) ==
    LET r == safeAppend(c.parent.mPoints, pt)
    IN [c |-> [c EXCEPT !.parent.mPoints = r.vec], ret |-> r.ret]

\* a faulty getDictionaryIndex that never consults mCoeffLookup (every call
\* appends); C4's property must tell it from the real one
getDictionaryIndexNoFind(c, coeffs) ==
    IF \E k \in 1..Len(coeffs) : ~finite(coeffs[k].v)
    THEN [c |-> c, ret |-> INVALID_INDEX]
    ELSE LET a == addCoeffs(c, coeffs)
         IN IF a.ret = INVALID_INDEX
            THEN [c |-> a.c, ret |-> INVALID_INDEX]
            ELSE [c   |-> [a.c EXCEPT !.mCoeffLookup =
                             MapPut(@, coeffs, a.ret, CoeffVectorLessThan)],
                  ret |-> a.ret]

getDictionaryIndex(c, coeffs) ==
    IF \E k \in 1..Len(coeffs) : ~finite(coeffs[k].v)
    THEN [c |-> c, ret |-> INVALID_INDEX]
    ELSE LET found == MapFind(c.mCoeffLookup, coeffs, CoeffVectorLessThan)
         IN IF found # {}
            THEN [c |-> c, ret |-> (CHOOSE e \in found : TRUE).val]
            ELSE LET a == addCoeffs(c, coeffs)
                 IN IF a.ret = INVALID_INDEX
                    THEN [c |-> a.c, ret |-> INVALID_INDEX]
                    ELSE [c   |-> [a.c EXCEPT !.mCoeffLookup =
                                     MapPut(@, coeffs, a.ret, CoeffVectorLessThan)],
                          ret |-> a.ret]

\* a faulty getLayoutIndex that never inserts the default layout first; C9's
\* property must tell it from the real one
getLayoutIndexNoDefault(c, layout) ==
    LET found == MapFind(c.mLayoutLookup, layout, FaceLayoutLess)
    IN IF found # {}
       THEN [c |-> c, ret |-> (CHOOSE e \in found : TRUE).val]
       ELSE LET a == addLayout(c, layout)
            IN IF a.ret = INVALID_INDEX
               THEN [c |-> a.c, ret |-> INVALID_INDEX]
               ELSE [c   |-> [a.c EXCEPT !.mLayoutLookup =
                                MapPut(@, layout, a.ret, FaceLayoutLess)],
                     ret |-> a.ret]

getLayoutIndex(c, layout) ==
    LET found == MapFind(c.mLayoutLookup, layout, FaceLayoutLess)
    IN IF found # {}
       THEN [c |-> c, ret |-> (CHOOSE e \in found : TRUE).val]
       ELSE LET c1 == IF c.parent.mLayouts = <<>> /\
                         (FaceLayoutLess(layout, DefaultLayout) \/
                          FaceLayoutLess(DefaultLayout, layout))
                      THEN [c EXCEPT !.mLayoutLookup =
                                         MapPut(@, DefaultLayout, 0, FaceLayoutLess),
                                     !.parent.mLayouts = VPush(@, DefaultLayout)]
                      ELSE c
                a  == addLayout(c1, layout)
            IN IF a.ret = INVALID_INDEX
               THEN [c |-> a.c, ret |-> INVALID_INDEX]
               ELSE [c   |-> [a.c EXCEPT !.mLayoutLookup =
                                MapPut(@, layout, a.ret, FaceLayoutLess)],
                     ret |-> a.ret]

\* what x / 0 does in addExplicitPiece (undefined behaviour): the division
\* traps, or it yields the quotient q
DivZeroOutcomes == {[trap |-> TRUE, q |-> 0], [trap |-> FALSE, q |-> 0]}

\* yields [c, ret, fault]; fault: the call trapped and never returned
addExplicitPiece(c, s_order, pt_index, coeffs, dz) ==
    IF VSize(coeffs) > MaxOrder * MaxOrder
    THEN [c |-> c, ret |-> INVALID_INDEX, fault |-> FALSE]
    ELSE IF s_order = 0 /\ dz.trap
    THEN [c |-> c, ret |-> INVALID_INDEX, fault |-> TRUE]
    ELSE LET t_order == IF s_order = 0 THEN dz.q ELSE TruncDiv(VSize(coeffs), s_order)
         IN IF s_order < 0 \/ s_order > MaxOrder \/ t_order < 0 \/ t_order > MaxOrder
            THEN [c |-> c, ret |-> INVALID_INDEX, fault |-> FALSE]
            ELSE IF s_order * t_order # VSize(coeffs)
            THEN [c |-> c, ret |-> INVALID_INDEX, fault |-> FALSE]
            ELSE LET d == getDictionaryIndex(c, coeffs)
                 IN IF d.ret = INVALID_INDEX
                    THEN [c |-> d.c, ret |-> INVALID_INDEX, fault |-> FALSE]
                    ELSE LET a == addPiece(d.c, Piece2D(s_order + t_order * 65536, d.ret,
                                                        INVALID_INDEX, pt_index))
                         IN [c |-> a.c, ret |-> a.ret, fault |-> FALSE]

addTensorPiece(c, s_coeffs, t_coeffs, pt_index) ==
    LET s_order == VSize(s_coeffs)
        t_order == VSize(t_coeffs)
    IN IF s_order < 0 \/ s_order > MaxOrder \/ t_order < 0 \/ t_order > MaxOrder
       THEN [c |-> c, ret |-> INVALID_INDEX]
       ELSE LET ds == getDictionaryIndex(c, s_coeffs)
            IN IF ds.ret = INVALID_INDEX
               THEN [c |-> ds.c, ret |-> INVALID_INDEX]
               ELSE LET dt == getDictionaryIndex(ds.c, t_coeffs)
                    IN IF dt.ret = INVALID_INDEX
                       THEN [c |-> dt.c, ret |-> INVALID_INDEX]
                       ELSE addPiece(dt.c, Piece2D(s_order + t_order * 65536, ds.ret,
                                                   dt.ret, pt_index))

\* a faulty finishElem that does not compare the element's edge count with
\* its layout; C2's property must tell it from the real one
finishElemAnyCount(c, layout_index) ==
    LET g    == c.parent
        elem == Elem(VSize(g.mPieces), layout_index, VSize(g.mEdges))
    IN IF U32GeSize(layout_index, VSize(g.mLayouts))
       THEN [c |-> c, ret |-> INVALID_INDEX]
       ELSE addElem(c, elem)

\* a faulty finishElem that does not test layout_index against the stored
\* layouts and takes a layout that is not stored for the default one; C11's
\* property must tell it from the real one
finishElemNoRangeCheck(c, layout_index) ==
    LET g    == c.parent
        elem == Elem(VSize(g.mPieces), layout_index, VSize(g.mEdges))
        side_range_4 == IF U32GeSize(layout_index, VSize(g.mLayouts))
                        THEN SideRange(DefaultLayout, 4)
                        ELSE SideRange(VAt(g.mLayouts, layout_index), 4)
        elem_edge_count == IF g.mElems = <<>>
                           THEN VSize(g.mEdges)
                           ELSE U32Sub(VSize(g.mEdges), VBack(g.mElems).edge_end_index)
    IN IF elem_edge_count # side_range_4
       THEN [c |-> c, ret |-> INVALID_INDEX]
       ELSE addElem(c, elem)

finishElem(c, layout_index) ==
    LET g    == c.parent
        elem == Elem(VSize(g.mPieces), layout_index, VSize(g.mEdges))
    IN IF U32GeSize(layout_index, VSize(g.mLayouts))
       THEN [c |-> c, ret |-> INVALID_INDEX]
       ELSE LET layout          == VAt(g.mLayouts, layout_index)
                elem_edge_count == IF g.mElems = <<>>
                                   THEN VSize(g.mEdges)
                                   ELSE U32Sub(VSize(g.mEdges), VBack(g.mElems).edge_end_index)
            IN IF elem_edge_count # SideRange(layout, 4)
               THEN [c |-> c, ret |-> INVALID_INDEX]
               ELSE addElem(c, elem)

----------------------------------------------------------------------------
(* IGAData::isValid( std::ostream &err ).  Yields [ok, err]: err names the *)
(* entity and the index of the diagnostic printed.  ovf is what the test   *)
(* of an explicit piece yields when the int product s_order * t_order      *)
(* overflows (undefined behaviour).                                        *)

Pass == [ok |-> TRUE, err |-> <<"none", 0>>]
Fail(what, index) == [ok |-> FALSE, err |-> <<what, index>>]

BadPoint(pt) == ~finite(pt.x) \/ ~finite(pt.y) \/ ~finite(pt.z) \/ ~finite(pt.w)

\* the layout does not have at least one edge on each side
BadLayout(layout) ==
    \E i \in 0..3 : ~U32Lt(SideRange(layout, i), SideRange(layout, i + 1))

\* the out-of-bounds tests of the piece loop
BadPiece(g, piece, ovf) ==
    LET s_order == Low16(piece.st_order)
        t_order == High16(piece.st_order)
        size    == VSize(g.mCoeffs)
    IN \/ U32GeSize(piece.pt_index, VSize(g.mPoints))
       \/ /\ piece.maybe_t_index = INVALID_INDEX
          /\ IF t_order # 0 /\ s_order > MaxInt32 \div t_order
             THEN ovf
             ELSE piece.s_index < 0 \/ s_order * t_order > size - piece.s_index
       \/ /\ piece.maybe_t_index # INVALID_INDEX
          /\ \/ U32GtSize(U32Add(piece.s_index, s_order), size)
             \/ U32GtSize(U32Add(piece.maybe_t_index, t_order), size)

BadInterval(x) == LtZero(x) \/ ~finite(x)

\* the element loop without the final test that the elements refer to all
\* the edges and pieces
RECURSIVE ElemLoopNoResidue(_, _, _, _)
ElemLoopNoResidue(g, i, last_edge_end, last_piece_end) ==
    IF i >= VSize(g.mElems) THEN Pass
    ELSE LET elem == VAt(g.mElems, i)
         IN IF U32Lt(elem.edge_end_index, last_edge_end) THEN Fail("Elem", i)
            ELSE IF U32GtSize(elem.edge_end_index, VSize(g.mEdges)) THEN Fail("Elem", i)
            ELSE IF U32Lt(elem.piece_end_index, last_piece_end) THEN Fail("Elem", i)
            ELSE IF U32GtSize(elem.piece_end_index, VSize(g.mPieces)) THEN Fail("Elem", i)
            ELSE IF elem.layout_index # 0 /\ U32GeSize(elem.layout_index, VSize(g.mLayouts))
            THEN Fail("Elem", i)
            ELSE IF /\ ~U32GeSize(elem.layout_index, VSize(g.mLayouts))
                    /\ U32Sub(elem.edge_end_index, last_edge_end) #
                          SideRange(VAt(g.mLayouts, elem.layout_index), 4)
            THEN Fail("Elem", i)
            ELSE ElemLoopNoResidue(g, i + 1, elem.edge_end_index, elem.piece_end_index)

\* the element loop from element i on; yields Pass or the first failure
RECURSIVE ElemLoop(_, _, _, _)
ElemLoop(g, i, last_edge_end, last_piece_end) ==
    IF i >= VSize(g.mElems)
    THEN IF last_edge_end # VSize(g.mEdges) \/ last_piece_end # VSize(g.mPieces)
         THEN Fail("Elems", VSize(g.mElems))
         ELSE Pass
    ELSE LET elem == VAt(g.mElems, i)
         IN IF U32Lt(elem.edge_end_index, last_edge_end) THEN Fail("Elem", i)
            ELSE IF U32GtSize(elem.edge_end_index, VSize(g.mEdges)) THEN Fail("Elem", i)
            ELSE IF U32Lt(elem.piece_end_index, last_piece_end) THEN Fail("Elem", i)
            ELSE IF U32GtSize(elem.piece_end_index, VSize(g.mPieces)) THEN Fail("Elem", i)
            ELSE IF elem.layout_index # 0 /\ U32GeSize(elem.layout_index, VSize(g.mLayouts))
            THEN Fail("Elem", i)
            ELSE IF /\ ~U32GeSize(elem.layout_index, VSize(g.mLayouts))
                    /\ U32Sub(elem.edge_end_index, last_edge_end) #
                          SideRange(VAt(g.mLayouts, elem.layout_index), 4)
            THEN Fail("Elem", i)
            ELSE ElemLoop(g, i + 1, elem.edge_end_index, elem.piece_end_index)

IsValidErr(g, ovf) ==
    LET NotFinite(x)   == ~finite(x)
        PieceBad(p)    == BadPiece(g, p, ovf)
        EdgeBad(e)     == e # INVALID_INDEX /\ U32GeSize(e, VSize(g.mElems))
        icoeff         == VFirst(g.mCoeffs, NotFinite)
        ipoint         == VFirst(g.mPoints, BadPoint)
        ilayout        == VFirst(g.mLayouts, BadLayout)
        ipiece         == VFirst(g.mPieces, PieceBad)
        iinterval      == VFirst(g.mIntervals, BadInterval)
        iedge          == VFirst(g.mEdges, EdgeBad)
        layouts        == {g.mLayouts[k].v : k \in 1..Len(g.mLayouts)}
    IN IF icoeff # -1 THEN Fail("Coeff", icoeff)
       ELSE IF ipoint # -1 THEN Fail("Point", ipoint)
       ELSE IF g.mLayouts # <<>> /\
               (FaceLayoutLess(VAt(g.mLayouts, 0), DefaultLayout) \/
                FaceLayoutLess(DefaultLayout, VAt(g.mLayouts, 0)))
       THEN Fail("Layout", 0)
       ELSE IF ilayout # -1 THEN Fail("Layout", ilayout)
       ELSE IF Cardinality(layouts) # VSize(g.mLayouts) THEN Fail("Layouts", 0)
       ELSE IF VSize(g.mLayouts) > 1 /\ g.mIntervals = <<>> THEN Fail("Layouts", 1)
       ELSE IF ipiece # -1 THEN Fail("Piece", ipiece)
       ELSE IF g.mIntervals # <<>> /\ VSize(g.mEdges) # VSize(g.mIntervals)
       THEN Fail("Intervals", 0)
       ELSE IF iinterval # -1 THEN Fail("Interval", iinterval)
       ELSE IF iedge # -1 THEN Fail("Edge", iedge)
       ELSE ElemLoop(g, 0, 0, 0)

\* IGAData::isValid(): the verdict alone, for a model whose pieces' orders do
\* not overflow the int product
isValid(g) == IsValidErr(g, TRUE).ok

----------------------------------------------------------------------------
(* The builder as a state machine: one action per IGACreator operation.    *)

Cur == Creator(geometry, mCoeffLookup, mLayoutLookup)

\* the state after an operation that yielded r, called as op
Returns(r, op) ==
    /\ geometry' = r.c.parent
    /\ mCoeffLookup' = r.c.mCoeffLookup
    /\ mLayoutLookup' = r.c.mLayoutLookup
    /\ ret' = r.ret
    /\ failed' = (failed \/ r.ret = INVALID_INDEX)
    /\ call' = op
    /\ UNCHANGED stream

InitCreator ==
    /\ geometry = NewCreator.parent
    /\ mCoeffLookup = NewCreator.mCoeffLookup
    /\ mLayoutLookup = NewCreator.mLayoutLookup
    /\ call = [op |-> "IGACreator"]
    /\ ret = 0
    /\ failed = FALSE
    /\ fault = FALSE
    /\ dictLog = {}
    /\ layoutLog = {}
    /\ stream = <<>>

\* bounds of the builder runs
MaxEdges == 4
MaxLayouts == 4
MaxCoeffs == 3

MaxPieces == 1
MaxPoints == 1
MaxFinished == 1

\* arguments the callers draw from
CoeffArgs     == {<<>>, FromSeq(<<D(1)>>), FromSeq(<<D(1), D(2)>>),
                  FromSeq(<<D(1), NaN>>), Rep(D(3), MaxOrder)}
\* <<s_order, pt_index, coeffs>> for addExplicitPiece
ExplicitArgs  == {<<1, 0, FromSeq(<<D(1)>>)>>, <<2, 0, FromSeq(<<D(1), D(2)>>)>>,
                  <<2, 0, FromSeq(<<D(1)>>)>>, <<0, 0, FromSeq(<<D(1)>>)>>,
                  <<0, 0, <<>>>>, <<-1, 0, FromSeq(<<D(1)>>)>>,
                  <<MaxOrder + 1, 0, FromSeq(<<D(1)>>)>>,
                  <<1, 0, FromSeq(<<D(1), NaN>>)>>, <<1, 0, Rep(D(3), MaxOrder)>>}
\* <<s_coeffs, t_coeffs, pt_index>> for addTensorPiece
TensorArgs    == {<<FromSeq(<<D(1)>>), FromSeq(<<D(1), D(2)>>), 0>>,
                  <<FromSeq(<<D(1), D(2)>>), FromSeq(<<D(1), NaN>>), 0>>,
                  <<FromSeq(<<D(1)>>), Rep(D(3), MaxOrder + 1), 0>>}
EdgeTargets   == {INVALID_INDEX, 0}
KnotIntervals == {D(-1), D(0), D(2), NaN}
LayoutArgs    == {DefaultLayout, FaceLayout(0, 2, 3, 4, 5), FaceLayout(0, 1, 3, 4, 5),
                  FaceLayout(0, 0, 1, 2, 3), FaceLayout(1, 2, 3, 4, -1)}

\* the logs of a run nobody observes (nth = 0)
Unobserved == {<<"off", 0, 0>>}

\* the observer's logs after a call with argument x answered r: while nothing
\* is observed the call may become the observed one; afterwards every call
\* with the observed argument is logged
Observed(log, x, r) ==
    IF log = {} THEN {{}, {<<x, r, 1>>}}
    ELSE IF \E e \in log : e[3] = 0 THEN {log}
    ELSE IF \E e \in log : e[1] = x THEN {log \cup {<<x, r, 2>>}}
    ELSE {log}

AddEdgeOf(elems, intervals) ==
    /\ ~fault
    /\ VSize(geometry.mEdges) < MaxEdges
    /\ \E elem \in elems, knot_interval \in intervals :
          Returns(addEdge(Cur, elem, knot_interval),
                  [op |-> "addEdge", elem |-> elem, knot_interval |-> knot_interval])
    /\ UNCHANGED <<fault, dictLog, layoutLog>>

GetLayoutIndexOf(layouts) ==
    /\ ~fault
    /\ \E layout \in layouts :
          LET r == getLayoutIndex(Cur, layout)
          IN /\ VSize(r.c.parent.mLayouts) <= MaxLayouts
             /\ Returns(r, [op |-> "getLayoutIndex", layout |-> layout])
             /\ layoutLog' \in Observed(layoutLog, layout, r.ret)
    /\ UNCHANGED <<fault, dictLog>>

GetDictionaryIndex ==
    /\ ~fault
    /\ \E coeffs \in CoeffArgs :
          LET r == getDictionaryIndex(Cur, coeffs)
          IN /\ VSize(r.c.parent.mCoeffs) <= MaxCoeffs
             /\ Returns(r, [op |-> "getDictionaryIndex", coeffs |-> coeffs])
             /\ dictLog' \in Observed(dictLog, coeffs, r.ret)
    /\ UNCHANGED <<fault, layoutLog>>

AddCoeffs ==
    /\ ~fault
    /\ \E coeffs \in CoeffArgs :
          LET r == addCoeffs(Cur, coeffs)
          IN /\ VSize(r.c.parent.mCoeffs) <= MaxCoeffs
             /\ Returns(r, [op |-> "addCoeffs", coeffs |-> coeffs])
    /\ UNCHANGED <<fault, dictLog, layoutLog>>

AddExplicitPieceOf(args) ==
    /\ ~fault
    /\ \E arg \in args, dz \in DivZeroOutcomes :
          LET s_order  == arg[1]
              pt_index == arg[2]
              coeffs   == arg[3]
              r        == addExplicitPiece(Cur, s_order, pt_index, coeffs, dz)
          IN /\ VSize(r.c.parent.mCoeffs) <= MaxCoeffs
             /\ VSize(r.c.parent.mPieces) <= MaxPieces
             /\ geometry' = r.c.parent
             /\ mCoeffLookup' = r.c.mCoeffLookup
             /\ mLayoutLookup' = r.c.mLayoutLookup
             /\ ret' = IF r.fault THEN ret ELSE r.ret
             /\ failed' = (failed \/ (~r.fault /\ r.ret = INVALID_INDEX))
             /\ fault' = r.fault
             /\ call' = [op |-> "addExplicitPiece", s_order |-> s_order,
                         pt_index |-> pt_index, coeffs |-> coeffs]
    /\ UNCHANGED <<dictLog, layoutLog, stream>>

AddTensorPieceOf(args) ==
    /\ ~fault
    /\ \E arg \in args :
          LET r == addTensorPiece(Cur, arg[1], arg[2], arg[3])
          IN /\ VSize(r.c.parent.mCoeffs) <= MaxCoeffs
             /\ VSize(r.c.parent.mPieces) <= MaxPieces
             /\ Returns(r, [op |-> "addTensorPiece", s_coeffs |-> arg[1],
                            t_coeffs |-> arg[2], pt_index |-> arg[3]])
    /\ UNCHANGED <<fault, dictLog, layoutLog>>

AddPointOf(points) ==
    /\ ~fault
    /\ VSize(geometry.mPoints) < MaxPoints
    /\ \E pt \in points : Returns(addPoint(Cur, pt), [op |-> "addPoint", pt |-> pt])
    /\ UNCHANGED <<fault, dictLog, layoutLog>>

FinishElemOf(indices) ==
    /\ ~fault
    /\ VSize(geometry.mElems) < MaxFinished
    /\ \E layout_index \in indices :
          Returns(finishElem(Cur, layout_index),
                  [op |-> "finishElem", layout_index |-> layout_index])
    /\ UNCHANGED <<fault, dictLog, layoutLog>>

\* addEdge alone, on a fresh builder
NextEdges == AddEdgeOf(EdgeTargets, KnotIntervals)
SpecEdges == InitCreator /\ [][NextEdges]_vars

\* getLayoutIndex alone, on a fresh builder
NextLayouts == GetLayoutIndexOf(LayoutArgs)
SpecLayouts == InitCreator /\ [][NextLayouts]_vars

\* the coefficient dictionary: getDictionaryIndex, interleaved with the raw
\* addCoeffs and with addTensorPiece, on a fresh builder
NextDict ==
    \/ GetDictionaryIndex
    \/ AddCoeffs
    \/ AddTensorPieceOf(TensorArgs)
SpecDict == InitCreator /\ [][NextDict]_vars

\* addExplicitPiece, interleaved with the raw addCoeffs, on a fresh builder
NextExplicit == AddExplicitPieceOf(ExplicitArgs) \/ AddCoeffs
SpecExplicit == InitCreator /\ [][NextExplicit]_vars


----------------------------------------------------------------------------
(* Properties of the builder.                                               *)

\* C4 (SpecDict): a getDictionaryIndex call whose vector equals that of an
\* earlier getDictionaryIndex call on the same builder, whatever other
\* operations ran in between, returns the index the earlier call returned and
\* leaves the coefficient dictionary (length and contents) as it was.
C4_IdempotentDedup ==
    [][(call'.op = "getDictionaryIndex" /\ \E e \in dictLog : e[1] = call'.coeffs)
       => /\ \A e \in dictLog : e[1] = call'.coeffs => ret' = e[2]
          /\ geometry'.mCoeffs = geometry.mCoeffs]_vars

\* C4's case: a vector first stored at a non-zero index is asked for again
\* after the dictionary has grown past it
C4_Witness ==
    /\ call.op = "getDictionaryIndex"
    /\ \E e1, e2 \in dictLog :
          /\ e1[3] = 1 /\ e2[3] = 2 /\ e1[1] = call.coeffs
          /\ e1[2] # INVALID_INDEX /\ e1[2] > 0
          /\ VSize(geometry.mCoeffs) > e1[2] + VSize(e1[1])

\* C7 (SpecEdges): after any sequence of addEdge calls on a fresh builder the
\* interval array is empty or exactly as long as the edge array.
C7_IntervalsInStep ==
    geometry.mIntervals = <<>> \/ VSize(geometry.mIntervals) = VSize(geometry.mEdges)

\* what getLayoutIndex promises of the layouts stored in g: layout 0 is the
\* default layout and no layout is stored twice
LayoutDictOK(g) ==
    /\ g.mLayouts # <<>> => VAt(g.mLayouts, 0) = DefaultLayout
    /\ \A i, j \in 0..(VSize(g.mLayouts) - 1) :
          i # j => VAt(g.mLayouts, i) # VAt(g.mLayouts, j)

\* C9 (SpecLayouts): after every getLayoutIndex(L) call of a sequence of such
\* calls on a fresh builder, stored layout 0 is {0,1,2,3,4}, the stored layouts
\* are pairwise distinct, the index returned holds L, earlier answers still
\* hold their layouts, and a call that repeats an earlier L returns the same
\* index and stores nothing.
C9_LayoutDictionary ==
    [][call'.op = "getLayoutIndex"
       => /\ LayoutDictOK(geometry')
          /\ ret' # INVALID_INDEX
          /\ ret' < VSize(geometry'.mLayouts)
          /\ VAt(geometry'.mLayouts, ret') = call'.layout
          /\ \A e \in layoutLog' : VAt(geometry'.mLayouts, e[2]) = e[1]
          /\ (\E e \in layoutLog : e[1] = call'.layout)
                => /\ \A e \in layoutLog : e[1] = call'.layout => ret' = e[2]
                   /\ geometry'.mLayouts = geometry.mLayouts]_vars

\* C9's case: the first layout asked for was not the default one, more
\* layouts followed, and one of them was asked for again
C9_Witness ==
    /\ call.op = "getLayoutIndex"
    /\ VSize(geometry.mLayouts) >= 3
    /\ call.layout # DefaultLayout
    /\ \E e1, e2 \in layoutLog :
          e1[3] = 1 /\ e2[3] = 2 /\ e1[1] = call.layout /\ e1[2] = 1

\* the inputs C10 calls legal: finite coefficients, 1 <= s_order <= 0x7FFF
\* dividing |coeffs|, and |coeffs| / s_order <= 0x7FFF
LegalExplicit(s_order, coeffs) ==
    /\ \A k \in 1..Len(coeffs) : finite(coeffs[k].v)
    /\ 1 <= s_order /\ s_order <= MaxOrder
    /\ VSize(coeffs) % s_order = 0
    /\ VSize(coeffs) \div s_order <= MaxOrder

\* C10 (SpecExplicit): addExplicitPiece called with a legal input, the index
\* space not being exhausted, returns the index of a new explicit piece with
\* orders s_order and |coeffs| / s_order.
C10_LegalInputSucceeds ==
    [][(call'.op = "addExplicitPiece" /\ ~fault'
        /\ LegalExplicit(call'.s_order, call'.coeffs))
       => /\ ret' # INVALID_INDEX
          /\ ret' = VSize(geometry.mPieces)
          /\ VSize(geometry'.mPieces) = VSize(geometry.mPieces) + 1
          /\ LET p == VBack(geometry'.mPieces)
             IN /\ Low16(p.st_order) = call'.s_order
                /\ High16(p.st_order) = VSize(call'.coeffs) \div call'.s_order
                /\ p.maybe_t_index = INVALID_INDEX]_vars


----------------------------------------------------------------------------
(* The validator as a state machine: isValid(err) called once on a model    *)
(* that was loaded or assembled by hand rather than built by IGACreator.    *)

\* IGAData::layout: layout 0 is the default layout, stored or not
layout(g, layout_index) ==
    IF layout_index = 0 THEN DefaultLayout ELSE VAt(g.mLayouts, layout_index)

\* bounds of the models handed to the validator
MaxCoeffIndex == 3
MaxEdgeCount == 5
MaxElems == 2

\* a model of two coefficients and one point whose single element owns four
\* boundary edges and the single piece
PieceModel(piece) ==
    [EmptyData EXCEPT !.mCoeffs = FromSeq(<<D(1), D(2)>>),
                      !.mPoints = Rep(Point3d(D(0), D(0), D(0), D(1)), 1),
                      !.mPieces = Rep(piece, 1),
                      !.mEdges  = Rep(INVALID_INDEX, 4),
                      !.mElems  = Rep(Elem(1, 0, 4), 1)]

\* piece fields: in range, just out of range, and close to 2^32
PieceModels ==
    {PieceModel(Piece2D(s_order + t_order * 65536, s_index, maybe_t_index, pt_index)) :
        s_order \in 1..2, t_order \in 0..1,
        s_index \in (0..MaxCoeffIndex) \cup {-1, -2},
        maybe_t_index \in {INVALID_INDEX, 0, 2, -2},
        pt_index \in {0, 1, INVALID_INDEX}}

\* the element array of consecutive elements with the given edge counts and
\* layout indices, owning no pieces
RECURSIVE ElemsOf(_, _, _)
ElemsOf(counts, indices, last_edge_end) ==
    IF counts = <<>> THEN <<>>
    ELSE VCat(Rep(Elem(0, Head(indices), last_edge_end + Head(counts)), 1),
              ElemsOf(Tail(counts), Tail(indices), last_edge_end + Head(counts)))

RECURSIVE Sum(_)
Sum(s) == IF s = <<>> THEN 0 ELSE Head(s) + Sum(Tail(s))

\* a model without pieces whose elements have the given edge counts and
\* layout indices; knot intervals are stored when several layouts are
ElemModel(layouts, counts, indices) ==
    [EmptyData EXCEPT !.mLayouts   = layouts,
                      !.mEdges     = Rep(INVALID_INDEX, Sum(counts)),
                      !.mIntervals = IF VSize(layouts) > 1
                                     THEN Rep(D(1), Sum(counts)) ELSE <<>>,
                      !.mElems     = ElemsOf(counts, indices, 0)]

LayoutArrays == {<<>>, FromSeq(<<DefaultLayout>>),
                 FromSeq(<<DefaultLayout, FaceLayout(0, 2, 3, 4, 5)>>)}

ElemModels ==
    {ElemModel(layouts, counts, indices) :
        layouts \in LayoutArrays,
        counts  \in UNION {[1..n -> 3..MaxEdgeCount] : n \in 1..MaxElems},
        indices \in {<<0, 0>>, <<1, 0>>, <<0, 1>>}}

InitValid ==
    /\ geometry \in PieceModels \cup ElemModels
    /\ mCoeffLookup = {}
    /\ mLayoutLookup = {}
    /\ call = [op |-> "load"]
    /\ ret = 0
    /\ failed = FALSE
    /\ fault = FALSE
    /\ dictLog = {}
    /\ layoutLog = {}
    /\ stream = <<>>

\* isValid(err) on the model; ret is the verdict and the diagnostic
IsValid ==
    /\ call.op = "load"
    /\ \E ovf \in BOOLEAN : ret' = IsValidErr(geometry, ovf)
    /\ call' = [op |-> "isValid"]
    /\ UNCHANGED <<geometry, mCoeffLookup, mLayoutLookup, failed, fault, dictLog,
                   layoutLog, stream>>

NextValid == IsValid
SpecValid == InitValid /\ [][NextValid]_vars

\* s_index + count > size with the sum taken as an unbounded integer, s_index
\* an unsigned 32-bit value and 0 <= count, size < 2^31
SumExceeds(s_index, count, size) == s_index < 0 \/ count > size - s_index

\* the piece refers to a point or to coefficients that g does not have
PieceOutOfRange(g, piece) ==
    LET s_order == Low16(piece.st_order)
        t_order == High16(piece.st_order)
        size    == VSize(g.mCoeffs)
    IN \/ U32GeSize(piece.pt_index, VSize(g.mPoints))
       \/ /\ piece.maybe_t_index = INVALID_INDEX
          /\ SumExceeds(piece.s_index, s_order * t_order, size)
       \/ /\ piece.maybe_t_index # INVALID_INDEX
          /\ \/ SumExceeds(piece.s_index, s_order, size)
             \/ SumExceeds(piece.maybe_t_index, t_order, size)

\* C5 (SpecValid): isValid(err) returns false, with a diagnostic naming an
\* out-of-range piece, for every model in which some piece has pt_index >=
\* |points|, or is explicit with s_index + s_order*t_order > |coeffs|, or is
\* tensor with s_index + s_order > |coeffs| or maybe_t_index + t_order >
\* |coeffs|, the sums taken as unbounded integers.
C5_RejectsOutOfRangePiece ==
    (/\ call.op = "isValid"
     /\ \E i \in 0..(VSize(geometry.mPieces) - 1) :
           PieceOutOfRange(geometry, VAt(geometry.mPieces, i)))
    => /\ ~ret.ok
       /\ ret.err[1] = "Piece"
       /\ PieceOutOfRange(geometry, VAt(geometry.mPieces, ret.err[2]))

\* the edge count of element i: its edge_end_index minus the previous
\* element's, 0 for the first
EdgeCountOf(g, i) ==
    VAt(g.mElems, i).edge_end_index -
       (IF i = 0 THEN 0 ELSE VAt(g.mElems, i - 1).edge_end_index)

\* some element's layout resolves (index 0, or a stored index) and its edge
\* count differs from side_range[4] of that layout
EdgeCountMismatch(g) ==
    \E i \in 0..(VSize(g.mElems) - 1) :
       LET li == VAt(g.mElems, i).layout_index
       IN /\ li = 0 \/ ~U32GeSize(li, VSize(g.mLayouts))
          /\ EdgeCountOf(g, i) # SideRange(layout(g, li), 4)

\* C6 (SpecValid): isValid() returns false for every model in which some
\* element's edge count differs from side_range[4] of its resolved layout,
\* layout index 0 resolving to {0,1,2,3,4} also when no layout is stored.
C6_RejectsEdgeCountMismatch ==
    (call.op = "isValid" /\ EdgeCountMismatch(geometry)) => ~ret.ok


----------------------------------------------------------------------------
(* Building a whole model: the operations a caller uses to assemble         *)
(* elements, on a fresh builder, the observer switched off.                 *)

InitBuild ==
    /\ geometry = NewCreator.parent
    /\ mCoeffLookup = NewCreator.mCoeffLookup
    /\ mLayoutLookup = NewCreator.mLayoutLookup
    /\ call = [op |-> "IGACreator"]
    /\ ret = 0
    /\ failed = FALSE
    /\ fault = FALSE
    /\ dictLog = Unobserved
    /\ layoutLog = Unobserved
    /\ stream = <<>>

\* arguments of the building callers
BuildPoints   == {Point3d(D(0), D(0), D(0), D(1)), Point3d(D(0), NaN, D(0), D(1))}
BuildExplicit == {<<1, 0, FromSeq(<<D(1)>>)>>}
BuildTensor   == {<<FromSeq(<<D(1)>>), FromSeq(<<D(1), D(2)>>), 0>>}
BuildLayouts  == {DefaultLayout, FaceLayout(0, 2, 3, 4, 5)}

NextCreator ==
    \/ AddPointOf(BuildPoints)
    \/ AddEdgeOf({0}, {D(-1), D(1)})
    \/ AddExplicitPieceOf(BuildExplicit)
    \/ AddTensorPieceOf(BuildTensor)
    \/ GetLayoutIndexOf(BuildLayouts)
    \/ FinishElemOf({0, 1})
SpecCreator == InitBuild /\ [][NextCreator]_vars

\* what the builder stores as given and never checks: point components are
\* finite, pieces refer to stored points, edges to stored elements or to
\* none, knot intervals are finite, every layout has an edge on each side,
\* and knot intervals are stored when several layouts are
ArgumentsInRange(g) ==
    LET PieceBad(p) == U32GeSize(p.pt_index, VSize(g.mPoints))
        EdgeBad(e)  == e # INVALID_INDEX /\ U32GeSize(e, VSize(g.mElems))
    IN /\ VFirst(g.mPoints, BadPoint) = -1
       /\ VFirst(g.mPieces, PieceBad) = -1
       /\ VFirst(g.mEdges, EdgeBad) = -1
       /\ VFirst(g.mIntervals, BadInterval) = -1
       /\ VFirst(g.mLayouts, BadLayout) = -1
       /\ VSize(g.mLayouts) > 1 => g.mIntervals # <<>>

\* C2 as stated (SpecCreator): when every call on a fresh builder returned a
\* valid index and the last call is a finishElem, isValid() returns true,
\* whatever the argument values were.
C2_ValidByConstruction ==
    (call.op = "finishElem" /\ ~failed /\ ~fault) => isValid(geometry)

\* C2 amended (SpecCreator): for a model built on a fresh builder with
\* addPoint, addEdge, addExplicitPiece, addTensorPiece, getLayoutIndex and
\* finishElem, when every call returned a valid index, the last call is a
\* finishElem, and the values the builder stores unchecked are in range
\* (ArgumentsInRange), isValid() returns true.
C2_ValidWhenArgumentsInRange ==
    (call.op = "finishElem" /\ ~failed /\ ~fault /\ ArgumentsInRange(geometry))
    => isValid(geometry)

\* C2's case: a finished element owning a piece, a point and four edges
C2_Witness ==
    /\ call.op = "finishElem" /\ ~failed /\ ~fault
    /\ ArgumentsInRange(geometry)
    /\ VSize(geometry.mElems) = 1
    /\ VSize(geometry.mPieces) >= 1
    /\ VSize(geometry.mPoints) >= 1
    /\ VSize(geometry.mEdges) = 4

\* the edges added since the previous element was finished
EdgesSinceLastElem(g) ==
    VSize(g.mEdges) - (IF g.mElems = <<>> THEN 0 ELSE VBack(g.mElems).edge_end_index)

\* C8 (SpecCreator): with no layout stored, finishElem(0) called after exactly
\* four addEdge calls since the previous element returns the index of the new
\* element and stores no layout, and the finished model passes isValid() when
\* no other call failed and the arguments stored unchecked are in range.
C8_DefaultLayoutOmitted ==
    [][(/\ call'.op = "finishElem"
        /\ call'.layout_index = 0
        /\ geometry.mLayouts = <<>>
        /\ EdgesSinceLastElem(geometry) = 4)
       => /\ ret' # INVALID_INDEX
          /\ ret' = VSize(geometry.mElems)
          /\ geometry'.mLayouts = <<>>
          /\ (~failed /\ ArgumentsInRange(geometry')) => isValid(geometry')]_vars


----------------------------------------------------------------------------
(* A caller that does not check what the builder returns: calls that fail   *)
(* are followed by further calls, and an INVALID_INDEX that was returned    *)
(* may be passed on as the pt_index of a piece or as the layout_index of    *)
(* finishElem.                                                              *)

\* <<s_order, pt_index, coeffs>>: a good piece, one whose coefficient is not
\* a number, and one whose pt_index is an INVALID_INDEX passed on
IgnoredExplicit == {<<1, 0, FromSeq(<<D(1)>>)>>, <<1, 0, FromSeq(<<NaN>>)>>,
                    <<1, INVALID_INDEX, FromSeq(<<D(1)>>)>>}

NextIgnored ==
    \/ AddPointOf({Point3d(D(0), D(0), D(0), D(1))})
    \/ AddEdgeOf({INVALID_INDEX}, {D(-1)})
    \/ AddExplicitPieceOf(IgnoredExplicit)
    \/ GetLayoutIndexOf({DefaultLayout})
    \/ FinishElemOf({0, INVALID_INDEX})
SpecIgnored == InitBuild /\ [][NextIgnored]_vars

\* a stored piece whose pt_index is INVALID_INDEX
HoldsInvalidPoint(g) == \E k \in 1..Len(g.mPieces) : g.mPieces[k].v.pt_index = INVALID_INDEX

\* C11 as stated (SpecIgnored): when some call returned INVALID_INDEX and the
\* caller went on building up to a finishElem that returned an index (so no
\* finishElem after the failure returned INVALID_INDEX), isValid() on the
\* resulting model returns false.
C11_IgnoredFailureCaught ==
    (failed /\ ~fault /\ call.op = "finishElem" /\ ret # INVALID_INDEX)
    => ~isValid(geometry)

\* C11 amended (SpecIgnored): an INVALID_INDEX passed on as an index is
\* caught: finishElem( INVALID_INDEX ) returns INVALID_INDEX, and once a piece
\* whose pt_index is INVALID_INDEX is stored, isValid() returns false on every
\* later model.
C11_PassedOnIndexCaught ==
    [][/\ (call'.op = "finishElem" /\ call'.layout_index = INVALID_INDEX)
          => ret' = INVALID_INDEX
       /\ HoldsInvalidPoint(geometry') => ~isValid(geometry')]_vars

\* C11's case: after a failed call the caller went on, stored a piece whose
\* pt_index is INVALID_INDEX, and finished the element
C11_Witness ==
    /\ failed /\ ~fault
    /\ call.op = "finishElem" /\ ret # INVALID_INDEX
    /\ HoldsInvalidPoint(geometry)
    /\ ~isValid(geometry)


----------------------------------------------------------------------------
(* The container.  A byte stream is a vector of cells; the cell [w, x] is   *)
(* a field of w bytes holding the object x it was written from:             *)
(* <<"text", c>> eight chars, <<"u64", n>> a 64-bit integer, <<"char", c>>, *)
(* <<"f64", d>>, <<"u32", u>>, <<"Point3d", p>>, <<"Piece2D", p>>,          *)
(* <<"FaceLayout", l>> and <<"Elem", e>> one array element.  A 64-bit       *)
(* integer is carried as itself below 2^31 and as HugeLen from there on; a  *)
(* tag, a 64-bit integer built from text, is carried as its eight chars in  *)
(* memory order.  Equal neighbours of a stream need not share a run.        *)

Cell(w, x) == [w |-> w, x |-> x]

\* a local variable: F of the value of e, e being computed once
Local(e, F(_)) == CHOOSE y \in {F(x) : x \in {e}} : TRUE

Text8(c)   == <<[v |-> Cell(8, <<"text", c>>), n |-> 1]>>
U64(n)     == <<[v |-> Cell(8, <<"u64", n>>), n |-> 1]>>

\* a 64-bit integer of 2^31 or more
HugeLen == MaxInt32

\* the sanity value for buffer allocation, in bytes
IGA_MAX_ALLOC == 256000000

\* '\n' and '-'
LF == 10
Hyphen == 45

\* "#TSS0001" and "\nBLOCK:\n"
Magic       == <<35, 84, 83, 83, 48, 48, 48, 49>>
BlockMarker == <<LF, 66, 76, 79, 67, 75, 58, LF>>

\* the block types, in short form
TagIGAFILE == <<73, 71, 65, 70, 73, 76, 69>>
TagSRFTYPE == <<83, 82, 70, 84, 89, 80, 69>>
TagVECDICT == <<86, 69, 67, 68, 73, 67, 84>>
TagPT3DW   == <<80, 84, 51, 68, 87>>
Tag2DPIECE == <<50, 68, 80, 73, 69, 67, 69>>
TagLAYOUT  == <<76, 65, 89, 79, 85, 84>>
TagEDGES   == <<69, 68, 71, 69, 83>>
TagKNOTINT == <<75, 78, 79, 84, 73, 78, 84>>
TagSHAPE   == <<83, 72, 65, 80, 69>>

\* the chars tagValue copies: those before the first NUL of s, at most room
RECURSIVE TagText(_, _)
TagText(s, room) ==
    IF room = 0 \/ s = <<>> \/ Head(s) = 0 THEN <<>>
    ELSE <<Head(s)>> \o TagText(Tail(s), room - 1)

\* tagValue without the test for the last character: every blank is padded
\* with a hyphen
tagValueHyphens(tag_text) ==
    LET copied     == TagText(tag_text, 8)
        char_count == Len(copied)
    IN copied \o [i \in 1..(8 - char_count) |-> Hyphen]

\* tagValue: the text padded with hyphens and a final '\n' to eight chars
tagValue(tag_text) ==
    LET copied     == TagText(tag_text, 8)
        char_count == Len(copied)
    IN IF char_count = 8 THEN copied
       ELSE copied \o [i \in 1..(7 - char_count) |-> Hyphen] \o <<LF>>

\* the number of bytes of a vector of cells
RECURSIVE ByteSize(_)
ByteSize(cells) ==
    IF cells = <<>> THEN 0
    ELSE Head(cells).v.w * Head(cells).n + ByteSize(Tail(cells))

\* the bytes of an array of n elements of sizeof w, as the writer hands them
\* to writeData
Encode(vec, kind, w) ==
    [k \in 1..Len(vec) |-> [v |-> Cell(w, <<kind, vec[k].v>>), n |-> vec[k].n]]

\* what bytes that were not written from an element of this kind read as
Garbage(kind) ==
    CASE kind = "char"       -> -1
      [] kind = "f64"        -> <<"raw", 0>>
      [] kind = "u32"        -> -2
      [] kind = "Point3d"    -> Point3d(<<"raw", 0>>, <<"raw", 0>>, <<"raw", 0>>, <<"raw", 0>>)
      [] kind = "Piece2D"    -> Piece2D(-2, -2, -2, -2)
      [] kind = "FaceLayout" -> FaceLayout(-2, -2, -2, -2, -2)
      [] kind = "Elem"       -> Elem(-2, -2, -2)

\* the array of elements of sizeof w that a whole number of them, read from
\* cells, holds
RECURSIVE DecodeRuns(_, _)
DecodeRuns(cells, kind) ==
    IF cells = <<>> THEN <<>>
    ELSE VCat(Rep(IF Head(cells).v.x[1] = kind THEN Head(cells).v.x[2] ELSE Garbage(kind),
                  Head(cells).n),
              DecodeRuns(Tail(cells), kind))

Decode(cells, kind, w) ==
    IF \A k \in 1..Len(cells) : cells[k].v.w = w
    THEN DecodeRuns(cells, kind)
    ELSE Rep(Garbage(kind), ByteSize(cells) \div w)

\* readData( destination, k ) on the source src: [ok, got, rest].  A read
\* that ends inside a cell takes a part of it.
RECURSIVE Take(_, _)
Take(src, k) ==
    IF k = 0 THEN [ok |-> TRUE, got |-> <<>>, rest |-> src]
    ELSE IF src = <<>> THEN [ok |-> FALSE, got |-> <<>>, rest |-> <<>>]
    ELSE LET h == Head(src)
             w == h.v.w
         IN IF w * h.n <= k
            THEN Local(Take(Tail(src), k - w * h.n),
                       LAMBDA t : [ok |-> t.ok, got |-> <<h>> \o t.got, rest |-> t.rest])
            ELSE LET whole == k \div w
                     part  == k % w
                     left  == IF part = 0 THEN h.n - whole ELSE h.n - whole - 1
                 IN [ok   |-> TRUE,
                     got  |-> Rep(h.v, whole)
                              \o (IF part = 0 THEN <<>>
                                  ELSE Rep(Cell(part, <<"part", 0>>), 1)),
                     rest |-> (IF part = 0 THEN <<>>
                               ELSE Rep(Cell(w - part, <<"part", 1>>), 1))
                              \o Rep(h.v, left) \o Tail(src)]

\* the little-endian bytes of a 64-bit integer below 2^31
BytesOf(n) ==
    <<n % 256, (n \div 256) % 256, (n \div 65536) % 256, n \div 16777216, 0, 0, 0, 0>>

\* eight bytes read as char[ 8 ]
AsText(cells) ==
    IF Len(cells) = 1 /\ cells[1].v.x[1] = "text" THEN cells[1].v.x[2]
    ELSE IF Len(cells) = 1 /\ cells[1].v.x[1] = "u64" /\ cells[1].v.x[2] # HugeLen
    THEN BytesOf(cells[1].v.x[2])
    ELSE IF \A k \in 1..Len(cells) : cells[k].v.x[1] = "char"
    THEN [i \in 1..8 |-> VAt([k \in 1..Len(cells) |->
                                 [v |-> cells[k].v.x[2], n |-> cells[k].n]], i - 1)]
    ELSE [i \in 1..8 |-> -1]

\* eight bytes read as uint64_t
AsU64(cells) ==
    IF Len(cells) = 1 /\ cells[1].v.x[1] = "u64" THEN cells[1].v.x[2]
    ELSE LET c == AsText(cells)
         IN IF (\A i \in 1..8 : c[i] >= 0) /\ (\A i \in 5..8 : c[i] = 0) /\ c[4] < 128
            THEN c[1] + 256 * c[2] + 65536 * c[3] + 16777216 * c[4]
            ELSE HugeLen

\* a faulty writeBlock that leaves out the block postfix length; C1's
\* property must tell it from the real one
writeBlockNoPostfix(block_type, contents, length, id) ==
    Text8(BlockMarker) \o Text8(tagValue(block_type)) \o U64(id) \o U64(length)
    \o contents

\* IGAWriter::writeBlock with every writeData succeeding: the bytes written
writeBlock(block_type, contents, length, id) ==
    Text8(BlockMarker) \o Text8(tagValue(block_type)) \o U64(id) \o U64(length)
    \o contents \o U64(length)

\* WRITE_BLOCK( NAME, GETTER, TYPE )
WRITE_BLOCK(name, vec, kind, w) == writeBlock(name, Encode(vec, kind, w), VSize(vec) * w, 0)

\* IGAWriter::writeIGAFile with every write succeeding: the TSS header and
\* the blocks written, one segment each
writeIGAFile(g) ==
    <<Text8(Magic),
      writeBlock(TagIGAFILE, <<>>, 0, 0),
      WRITE_BLOCK(TagSRFTYPE, g.mSrfType, "char", 1),
      WRITE_BLOCK(TagVECDICT, g.mCoeffs, "f64", 8),
      WRITE_BLOCK(TagPT3DW, g.mPoints, "Point3d", 32),
      WRITE_BLOCK(Tag2DPIECE, g.mPieces, "Piece2D", 16),
      WRITE_BLOCK(TagLAYOUT, g.mLayouts, "FaceLayout", 20),
      WRITE_BLOCK(TagEDGES, g.mEdges, "u32", 4)>>
    \o (IF VSize(g.mIntervals) > 0
        THEN <<WRITE_BLOCK(TagKNOTINT, g.mIntervals, "f64", 8)>> ELSE <<>>)
    \o <<WRITE_BLOCK(TagSHAPE, g.mElems, "Elem", 12)>>

\* the bytes of a container, as the reader's source delivers them
RECURSIVE Flatten(_)
Flatten(segments) ==
    IF segments = <<>> THEN <<>> ELSE Head(segments) \o Flatten(Tail(segments))

\* a faulty readBlock that reads the trailing length and tests neither the
\* read nor the value; C14's and C16's properties must tell it from the real
\* one
readBlockAnyTrailer(src, dst, len, kind, w) ==
    IF len % w # 0 THEN [ok |-> FALSE, dst |-> dst, rest |-> src]
    ELSE Local(
        IF len = 0 THEN [ok |-> TRUE, dst |-> dst, rest |-> src]
        ELSE IF len >= IGA_MAX_ALLOC THEN [ok |-> FALSE, dst |-> <<>>, rest |-> src]
        ELSE Local(Take(src, len),
                   LAMBDA t : IF ~t.ok
                              THEN [ok |-> FALSE, dst |-> Rep(Garbage(kind), len \div w),
                                    rest |-> t.rest]
                              ELSE [ok |-> TRUE, dst |-> Decode(t.got, kind, w),
                                    rest |-> t.rest]),
        LAMBDA body :
            IF ~body.ok THEN body
            ELSE Local(Take(body.rest, 8),
                       LAMBDA f : [ok |-> TRUE, dst |-> body.dst, rest |-> f.rest]))

\* IGAReader::readBlock on the source src: [ok, dst, rest]
readBlock(src, dst, len, kind, w) ==
    IF len % w # 0 THEN [ok |-> FALSE, dst |-> dst, rest |-> src]
    ELSE Local(
        IF len = 0 THEN [ok |-> TRUE, dst |-> dst, rest |-> src]
        ELSE IF len >= IGA_MAX_ALLOC THEN [ok |-> FALSE, dst |-> <<>>, rest |-> src]
        ELSE Local(Take(src, len),
                   LAMBDA t : IF ~t.ok
                              THEN [ok |-> FALSE, dst |-> Rep(Garbage(kind), len \div w),
                                    rest |-> t.rest]
                              ELSE [ok |-> TRUE, dst |-> Decode(t.got, kind, w),
                                    rest |-> t.rest]),
        LAMBDA body :
            IF ~body.ok THEN body
            ELSE Local(Take(body.rest, 8),
                       LAMBDA f : IF ~f.ok
                                  THEN [ok |-> FALSE, dst |-> body.dst, rest |-> f.rest]
                                  ELSE IF AsU64(f.got) # len
                                  THEN [ok |-> FALSE, dst |-> body.dst, rest |-> f.rest]
                                  ELSE [ok |-> TRUE, dst |-> body.dst, rest |-> f.rest]))

\* readData into a BlockHeader: [ok, block_tag, tag, id, block_len, rest]
readHeader(src) ==
    Local(Take(src, 32), LAMBDA t :
        IF ~t.ok
        THEN [ok |-> FALSE, block_tag |-> <<>>, tag |-> <<>>, id |-> 0, block_len |-> 0,
              rest |-> t.rest]
        ELSE Local(Take(t.got, 8), LAMBDA f1 :
             Local(Take(f1.rest, 8), LAMBDA f2 :
             Local(Take(f2.rest, 8), LAMBDA f3 :
                 [ok |-> TRUE, block_tag |-> AsText(f1.got), tag |-> AsText(f2.got),
                  id |-> AsU64(f3.got), block_len |-> AsU64(f3.rest), rest |-> t.rest]))))

\* a faulty dispatch that reads unknown blocks as EDGES; C3's property must
\* tell it from the real one
BlockTargetEdges(tag) ==
    IF tag = tagValue(TagSRFTYPE) THEN "mSrfType"
    ELSE IF tag = tagValue(TagVECDICT) THEN "mCoeffs"
    ELSE IF tag = tagValue(TagPT3DW) THEN "mPoints"
    ELSE IF tag = tagValue(Tag2DPIECE) THEN "mPieces"
    ELSE IF tag = tagValue(TagLAYOUT) THEN "mLayouts"
    ELSE IF tag = tagValue(TagKNOTINT) THEN "mIntervals"
    ELSE IF tag = tagValue(TagSHAPE) THEN "mElems"
    ELSE "mEdges"

\* the vector a block of this tag is read into
BlockTarget(tag) ==
    IF tag = tagValue(TagSRFTYPE) THEN "mSrfType"
    ELSE IF tag = tagValue(TagVECDICT) THEN "mCoeffs"
    ELSE IF tag = tagValue(TagPT3DW) THEN "mPoints"
    ELSE IF tag = tagValue(Tag2DPIECE) THEN "mPieces"
    ELSE IF tag = tagValue(TagLAYOUT) THEN "mLayouts"
    ELSE IF tag = tagValue(TagEDGES) THEN "mEdges"
    ELSE IF tag = tagValue(TagKNOTINT) THEN "mIntervals"
    ELSE IF tag = tagValue(TagSHAPE) THEN "mElems"
    ELSE "unused_block"

\* the element type of that vector and its sizeof
ElemKind(field) ==
    CASE field \in {"mSrfType", "unused_block"} -> "char"
      [] field \in {"mCoeffs", "mIntervals"}    -> "f64"
      [] field = "mPoints"                      -> "Point3d"
      [] field = "mPieces"                      -> "Piece2D"
      [] field = "mLayouts"                     -> "FaceLayout"
      [] field = "mEdges"                       -> "u32"
      [] field = "mElems"                       -> "Elem"

ElemSize(field) ==
    CASE field \in {"mSrfType", "unused_block"} -> 1
      [] field \in {"mCoeffs", "mIntervals"}    -> 8
      [] field = "mPoints"                      -> 32
      [] field = "mPieces"                      -> 16
      [] field = "mLayouts"                     -> 20
      [] field = "mEdges"                       -> 4
      [] field = "mElems"                       -> 12

\* the block loop without the geometry.clear() of the SRFTYPE branch
RECURSIVE BlockLoopNoClear(_, _)
BlockLoopNoClear(g, src) ==
    Local(readHeader(src), LAMBDA h :
        IF ~h.ok THEN [ok |-> TRUE, geometry |-> g]
        ELSE IF tagValue(h.block_tag) # tagValue(BlockMarker)
        THEN [ok |-> FALSE, geometry |-> g]
        ELSE LET field == BlockTarget(h.tag)
                 dst   == IF field \in {"mSrfType", "unused_block"} THEN <<>> ELSE g[field]
             IN Local(readBlock(h.rest, dst, h.block_len, ElemKind(field), ElemSize(field)),
                      LAMBDA b :
                 Local(IF field = "unused_block" THEN g
                       ELSE IF field = "mSrfType"
                       THEN (IF b.ok THEN [g EXCEPT !.mSrfType = b.dst] ELSE g)
                       ELSE [g EXCEPT ![field] = b.dst],
                       LAMBDA g1 : IF ~b.ok THEN [ok |-> FALSE, geometry |-> g1]
                                   ELSE BlockLoopNoClear(g1, b.rest))))

\* the block loop of readIGAFile, the model read so far being g:
\* [ok, geometry]
RECURSIVE BlockLoop(_, _)
BlockLoop(g, src) ==
    Local(readHeader(src), LAMBDA h :
        IF ~h.ok THEN [ok |-> TRUE, geometry |-> g]
        ELSE IF tagValue(h.block_tag) # tagValue(BlockMarker)
        THEN [ok |-> FALSE, geometry |-> g]
        ELSE LET field == BlockTarget(h.tag)
                 g0    == IF field = "mSrfType" THEN EmptyData ELSE g
                 dst   == IF field \in {"mSrfType", "unused_block"} THEN <<>> ELSE g0[field]
             IN Local(readBlock(h.rest, dst, h.block_len, ElemKind(field), ElemSize(field)),
                      LAMBDA b :
                 Local(IF field = "unused_block" THEN g0
                       ELSE IF field = "mSrfType"
                       THEN (IF b.ok THEN [g0 EXCEPT !.mSrfType = b.dst] ELSE g0)
                       ELSE [g0 EXCEPT ![field] = b.dst],
                       LAMBDA g1 : IF ~b.ok THEN [ok |-> FALSE, geometry |-> g1]
                                   ELSE BlockLoop(g1, b.rest))))

\* IGAReader::readIGAFile on the source src: [ok, geometry]
readIGAFile(src) ==
    Local(Take(src, 8), LAMBDA m :
        IF ~m.ok \/ AsText(m.got) # Magic THEN [ok |-> FALSE, geometry |-> EmptyData]
        ELSE Local(readHeader(m.rest), LAMBDA h :
            IF ~h.ok THEN [ok |-> FALSE, geometry |-> EmptyData]
            ELSE IF tagValue(h.block_tag) # tagValue(BlockMarker)
            THEN [ok |-> FALSE, geometry |-> EmptyData]
            ELSE IF h.tag # tagValue(TagIGAFILE) THEN [ok |-> FALSE, geometry |-> EmptyData]
            ELSE Local(readBlock(h.rest, <<>>, h.block_len, "char", 1), LAMBDA b :
                IF ~b.ok THEN [ok |-> FALSE, geometry |-> EmptyData]
                ELSE BlockLoop(EmptyData, b.rest))))


----------------------------------------------------------------------------
(* Writing and reading a container: a model is written once to a sink whose *)
(* writes all succeed, a foreign block may be put between two blocks of     *)
(* the container, and the container is read back into the model.            *)

\* at most this many foreign blocks are put into one container
MaxUnknown == 1

\* a model of ncoeffs coefficients; when full, with a point, an explicit
\* piece, a stored default layout and an element of four edges
CodecModel(srf, ncoeffs, full, intervals) ==
    IF full
    THEN [EmptyData EXCEPT !.mSrfType   = srf,
                           !.mCoeffs    = Rep(D(1), ncoeffs),
                           !.mPoints    = Rep(Point3d(D(0), D(0), D(0), D(1)), 1),
                           !.mPieces    = Rep(Piece2D(1 + 65536, 0, INVALID_INDEX, 0), 1),
                           !.mLayouts   = Rep(DefaultLayout, 1),
                           !.mEdges     = Rep(INVALID_INDEX, 4),
                           !.mIntervals = IF intervals THEN Rep(D(1), 4) ELSE <<>>,
                           !.mElems     = Rep(Elem(1, 0, 4), 1)]
    ELSE [EmptyData EXCEPT !.mSrfType = srf, !.mCoeffs = Rep(D(1), ncoeffs)]

\* coefficient counts: none, a few, and those whose VECDICT block is one
\* element short of IGA_MAX_ALLOC bytes and exactly IGA_MAX_ALLOC bytes
CoeffCounts == {0, 1, 2, (IGA_MAX_ALLOC \div 8) - 1, IGA_MAX_ALLOC \div 8}

\* surface types: the default, the empty string and "x"
SurfaceTypes == {EmptyData.mSrfType, <<>>, Chars(<<120>>)}

CodecModels ==
    {CodecModel(srf, ncoeffs, full, intervals) :
        srf \in SurfaceTypes, ncoeffs \in CoeffCounts,
        full \in BOOLEAN, intervals \in BOOLEAN}

\* the models whose containers foreign blocks are put into
ForeignModels ==
    {CodecModel(EmptyData.mSrfType, 2, full, intervals) :
        full \in BOOLEAN, intervals \in BOOLEAN}

\* foreign blocks: a tag no reader knows, any id, a declared length and as
\* many payload bytes
UnknownTags == {<<70, 85, 84, 85, 82, 69>>, TagIGAFILE}
UnknownLens == {0, 3, IGA_MAX_ALLOC - 1, IGA_MAX_ALLOC}

InitCodec ==
    /\ geometry \in CodecModels
    /\ mCoeffLookup = {}
    /\ mLayoutLookup = {}
    /\ call = [op |-> "load"]
    /\ ret = 0
    /\ failed = FALSE
    /\ fault = FALSE
    /\ dictLog = {}
    /\ layoutLog = {}
    /\ stream = <<>>

InitForeign ==
    /\ geometry \in ForeignModels
    /\ mCoeffLookup = {}
    /\ mLayoutLookup = {}
    /\ call = [op |-> "load"]
    /\ ret = 0
    /\ failed = FALSE
    /\ fault = FALSE
    /\ dictLog = {}
    /\ layoutLog = {}
    /\ stream = <<>>

\* writeIGAFile( geometry ) into an empty sink
WriteIGAFile ==
    /\ call.op = "load"
    /\ stream' = writeIGAFile(geometry)
    /\ ret' = TRUE
    /\ call' = [op |-> "writeIGAFile"]
    /\ UNCHANGED <<geometry, mCoeffLookup, mLayoutLookup, failed, fault, dictLog,
                   layoutLog>>

\* a foreign writer puts a block of its own after block at - 1 of the
\* container, before the block that followed it
InsertBlock ==
    /\ \/ call.op = "writeIGAFile"
       \/ call.op = "insertBlock" /\ call.nth < MaxUnknown
    /\ \E tag \in UnknownTags, len \in UnknownLens, at \in 3..Len(stream) :
          /\ stream' = SubSeq(stream, 1, at - 1)
                       \o <<writeBlock(tag, Rep(Cell(1, <<"char", 120>>), len), len, 0)>>
                       \o SubSeq(stream, at, Len(stream))
          /\ call' = [op |-> "insertBlock", tag |-> tag, len |-> len, at |-> at,
                      nth |-> IF call.op = "insertBlock" THEN call.nth + 1 ELSE 1]
    /\ UNCHANGED <<geometry, mCoeffLookup, mLayoutLookup, ret, failed, fault, dictLog,
                   layoutLog>>

\* readIGAFile( geometry ) from a source holding the container
ReadIGAFile ==
    /\ call.op \notin {"load", "readIGAFile"}
    /\ \E r \in {readIGAFile(Flatten(stream))} :
          /\ geometry' = r.geometry
          /\ ret' = r.ok
    /\ call' = [op |-> "readIGAFile"]
    /\ UNCHANGED <<mCoeffLookup, mLayoutLookup, failed, fault, dictLog, layoutLog, stream>>

NextCodec == WriteIGAFile \/ ReadIGAFile
SpecCodec == InitCodec /\ [][NextCodec]_vars

NextForeign == WriteIGAFile \/ InsertBlock \/ ReadIGAFile
SpecForeign == InitForeign /\ [][NextForeign]_vars

\* every block of the model's container is shorter than IGA_MAX_ALLOC bytes
BelowCeiling(g) ==
    /\ VSize(g.mSrfType) < IGA_MAX_ALLOC
    /\ VSize(g.mCoeffs) < IGA_MAX_ALLOC \div 8
    /\ VSize(g.mPoints) < IGA_MAX_ALLOC \div 32
    /\ VSize(g.mPieces) < IGA_MAX_ALLOC \div 16
    /\ VSize(g.mLayouts) < IGA_MAX_ALLOC \div 20
    /\ VSize(g.mEdges) < IGA_MAX_ALLOC \div 4
    /\ VSize(g.mIntervals) < IGA_MAX_ALLOC \div 8
    /\ VSize(g.mElems) * 12 < IGA_MAX_ALLOC

WithoutBlock(segments, at) ==
    readIGAFile(Flatten(SubSeq(segments, 1, at - 1) \o SubSeq(segments, at + 1, Len(segments))))

----------------------------------------------------------------------------
(* Damaged containers: a container written from a model is changed in one   *)
(* place, as a foreign or faulty writer or a cut transfer would, and read.  *)

\* the bytes of a block whose fields are written as given
Block(block_tag, tag, id, len, contents, final_len) ==
    Text8(block_tag) \o Text8(tag) \o U64(id) \o U64(len) \o contents \o U64(final_len)

\* len bytes that are not the image of any array
Payload(len) == Rep(Cell(1, <<"char", 120>>), len)

\* the tag of a block of the container, as its eight chars
TagOf(block) == block[2].v.x[2]

\* the first block is written with this tag and length, and as many payload
\* bytes
ReplaceFirstBlock ==
    /\ call.op = "writeIGAFile"
    /\ \E tag \in {tagValue(TagIGAFILE), tagValue(TagSRFTYPE)}, len \in {0, 3} :
          /\ stream' = [stream EXCEPT ![2] = Block(BlockMarker, tag, 0, len, Payload(len), len)]
          /\ call' = [op |-> "replaceFirstBlock", tag |-> tag, len |-> len]
    /\ UNCHANGED <<geometry, mCoeffLookup, mLayoutLookup, ret, failed, fault, dictLog,
                   layoutLog>>

\* frame markers that differ from "\nBLOCK:\n" in one byte: the eighth 0x00,
\* the eighth a space, the first 'X', the seventh 0x00
BadMarkers ==
    {<<LF, 66, 76, 79, 67, 75, 58, 0>>, <<LF, 66, 76, 79, 67, 75, 58, 32>>,
     <<88, 66, 76, 79, 67, 75, 58, LF>>, <<LF, 66, 76, 79, 67, 75, 0, LF>>}

\* block at of the container gets a frame marker that is not "\nBLOCK:\n"
BreakMarker ==
    /\ call.op = "writeIGAFile"
    /\ \E at \in 2..Len(stream), marker \in BadMarkers :
          /\ stream' = [stream EXCEPT ![at] = Text8(marker) \o Tail(@)]
          /\ call' = [op |-> "breakMarker", at |-> at, marker |-> marker]
    /\ UNCHANGED <<geometry, mCoeffLookup, mLayoutLookup, ret, failed, fault, dictLog,
                   layoutLog>>

\* the places a block of size bytes is cut at: at its start, inside its
\* header, at the end of its header, inside its payload or trailing length
CutPoints(size) == {b \in {0, 1, 31, 32, 33, size - 8, size - 1} : b < size}

\* the source ends bytes bytes into block at of the container
Truncate ==
    /\ call.op = "writeIGAFile"
    /\ \E at \in 3..Len(stream) :
          \E bytes \in CutPoints(ByteSize(stream[at])) :
             /\ stream' = Append(SubSeq(stream, 1, at - 1), Take(stream[at], bytes).got)
             /\ call' = [op |-> "truncate", at |-> at, bytes |-> bytes]
    /\ UNCHANGED <<geometry, mCoeffLookup, mLayoutLookup, ret, failed, fault, dictLog,
                   layoutLog>>

\* declared lengths for a block of elements of w bytes: none, one element, a
\* byte more, and the multiples of w next to IGA_MAX_ALLOC (the largest below
\* it, the largest not above it, the smallest above it)
DeclaredLens(w) ==
    {0, w, w + 1, ((IGA_MAX_ALLOC - 1) \div w) * w, (IGA_MAX_ALLOC \div w) * w,
     (IGA_MAX_ALLOC \div w) * w + w}

\* block at of the container is written with a declared length, as many
\* payload bytes and a trailing length, under its own tag or an unknown one
DeclareLength ==
    /\ call.op = "writeIGAFile"
    /\ \E at \in 2..Len(stream) :
       \E tag \in {TagOf(stream[at])} \cup (IF at = 2 THEN {} ELSE {tagValue(<<70, 85, 84, 85, 82, 69>>)}) :
       \E len \in DeclaredLens(IF at = 2 THEN 1 ELSE ElemSize(BlockTarget(tag))),
          mismatch \in {0, 1} :
          /\ stream' = [stream EXCEPT
                           ![at] = Block(BlockMarker, tag, 0, len, Payload(len), len + mismatch)]
          /\ call' = [op |-> "declareLength", at |-> at, len |-> len,
                      final_len |-> len + mismatch,
                      known |-> (at > 2 /\ BlockTarget(tag) # "unused_block"),
                      w |-> IF at = 2 THEN 1 ELSE ElemSize(BlockTarget(tag))]
    /\ UNCHANGED <<geometry, mCoeffLookup, mLayoutLookup, ret, failed, fault, dictLog,
                   layoutLog>>

NextDamaged ==
    \/ WriteIGAFile
    \/ ReplaceFirstBlock
    \/ BreakMarker
    \/ Truncate
    \/ DeclareLength
    \/ ReadIGAFile
SpecDamaged == InitForeign /\ [][NextDamaged]_vars

\* C12 (SpecDamaged): readIGAFile returns false unless the block that follows
\* the magic has tag IGAFILE and declared length 0; an IGAFILE block with a
\* payload and a matching trailing length is rejected.
C12_FirstBlockEmptyHeader ==
    [][(/\ call'.op = "readIGAFile" /\ call.op = "replaceFirstBlock"
        /\ ~(call.tag = tagValue(TagIGAFILE) /\ call.len = 0))
       => ret' = FALSE]_vars

\* C13 (SpecDamaged): readIGAFile returns false whenever the frame marker of
\* a block header differs in any byte from "\nBLOCK:\n".
C13_MarkerMatchedExactly ==
    [][(call'.op = "readIGAFile" /\ call.op = "breakMarker") => ret' = FALSE]_vars

\* C14 as stated (SpecDamaged): of a container cut after the IGAFILE header
\* block, readIGAFile returns true only if the cut is at a block boundary;
\* cut inside a block (header, payload or trailing length) it returns false.
C14_TrueOnlyAtBoundary ==
    [][(call'.op = "readIGAFile" /\ call.op = "truncate")
       => (ret' = (call.bytes = 0))]_vars

\* C14 amended (SpecDamaged): of a container cut after the IGAFILE header
\* block, readIGAFile returns true exactly if the cut is at a block boundary
\* or inside the 32-byte header of a block; cut inside a payload or a
\* trailing length it returns false.
C14_TrueUpToFullHeader ==
    [][(call'.op = "readIGAFile" /\ call.op = "truncate")
       => (ret' = (call.bytes < 32))]_vars

\* the size in bytes of the last block of the container, cut or not
LastSize == ByteSize(stream[Len(stream)])

\* C14's case: a container cut inside the header of a block has been read
\* and found complete
C14_Witness ==
    /\ call.op = "readIGAFile" /\ ret = TRUE
    /\ Len(stream) > 3
    /\ LastSize = 31

\* C15 (SpecDamaged): readIGAFile rejects a block, known or unknown, whose
\* lengths agree and are a multiple of the element size exactly when the
\* declared length exceeds IGA_MAX_ALLOC; a length of exactly IGA_MAX_ALLOC is
\* read.
C15_RejectsAboveCeilingOnly ==
    [][(/\ call'.op = "readIGAFile" /\ call.op = "declareLength"
        /\ call.final_len = call.len /\ call.len % call.w = 0)
       => (ret' = (call.len <= IGA_MAX_ALLOC))]_vars

\* C16 (SpecDamaged): readIGAFile returns false whenever a block of the
\* stream (the header block, a known or an unknown block, of any length) has
\* a trailing length different from its leading length, or a known block's
\* length is not a multiple of its element size.
C16_LengthRedundancy ==
    [][(/\ call'.op = "readIGAFile" /\ call.op = "declareLength"
        /\ \/ call.final_len # call.len
           \/ call.known /\ call.len % call.w # 0)
       => ret' = FALSE]_vars

\* C16's case: a container holding an empty block whose trailing length is
\* not 0 has been read and rejected
C16_Witness ==
    /\ call.op = "readIGAFile" /\ ret = FALSE
    /\ \E k \in 2..Len(stream) :
          /\ Len(stream[k]) = 5
          /\ stream[k][4].v.x = <<"u64", 0>>
          /\ stream[k][5].v.x = <<"u64", 1>>


----------------------------------------------------------------------------
(* The queries of IGAData: the const member functions that hand out the     *)
(* ranges of an element and the interval of an edge, called on a model that *)
(* was loaded.                                                              *)

\* what an out-of-bounds read of a vector does (undefined behaviour): the
\* read traps, or it yields one of these values
OutOfBounds(values) ==
    {[trap |-> trap, v |-> x] : trap \in BOOLEAN, x \in values}
U32Reads == OutOfBounds({0, INVALID_INDEX, Garbage("u32")})
F64Reads == OutOfBounds({D(1), Garbage("f64")})

elemCount(g) == VSize(g.mElems)

edgeBegin(g, elem_index) ==
    IF U32GeSize(elem_index, VSize(g.mElems)) THEN INVALID_INDEX
    ELSE IF elem_index = 0 THEN 0
    ELSE VAt(g.mElems, elem_index - 1).edge_end_index

edgeEnd(g, elem_index) ==
    IF U32GeSize(elem_index, VSize(g.mElems)) THEN INVALID_INDEX
    ELSE VAt(g.mElems, elem_index).edge_end_index

\* yields [trap, v]; oob: what mIntervals[ edge_index ] does out of bounds
edgeIntervalNoDefault(g, edge_index, oob) ==
    IF U32GeSize(edge_index, VSize(g.mIntervals)) THEN oob
    ELSE [trap |-> FALSE, v |-> VAt(g.mIntervals, edge_index)]

edgeInterval(g, edge_index, oob) ==
    IF g.mIntervals = <<>> THEN [trap |-> FALSE, v |-> D(1)]
    ELSE IF U32GeSize(edge_index, VSize(g.mIntervals)) THEN oob
    ELSE [trap |-> FALSE, v |-> VAt(g.mIntervals, edge_index)]

\* yields [trap, v]; oob: what mElems[ elem_index - 1 ] does out of bounds
pieceBegin(g, elem_index, oob) ==
    IF elem_index = 0 THEN [trap |-> FALSE, v |-> 0]
    ELSE IF U32GeSize(U32Sub(elem_index, 1), VSize(g.mElems)) THEN oob
    ELSE [trap |-> FALSE, v |-> VAt(g.mElems, elem_index - 1).piece_end_index]

\* side_range[ at ] of the layout of element elem_index; oob: what the first
\* read out of bounds (of mElems, mLayouts or side_range) leads to
SideRangeOf(g, elem_index, at, oob) ==
    IF U32GeSize(elem_index, VSize(g.mElems)) THEN oob
    ELSE LET layout_index == VAt(g.mElems, elem_index).layout_index
         IN IF layout_index # 0 /\ U32GeSize(layout_index, VSize(g.mLayouts)) THEN oob
            ELSE IF at \notin 0..4 THEN oob
            ELSE [trap |-> FALSE, v |-> SideRange(layout(g, layout_index), at)]

sideBegin(g, elem_index, side, oob) == SideRangeOf(g, elem_index, side, oob)

sideEnd(g, elem_index, side, oob) == SideRangeOf(g, elem_index, side + 1, oob)

\* bound of the models queried: the pieces one element owns
MaxOwned == 2

\* the element array of consecutive elements with the given layout indices
\* and piece counts, each with as many edges as its layout has
RECURSIVE ElemsOwning(_, _, _, _, _)
ElemsOwning(layouts, indices, owned, last_piece_end, last_edge_end) ==
    IF indices = <<>> THEN <<>>
    ELSE LET piece_end == last_piece_end + Head(owned)
             edge_end  == last_edge_end
                          + SideRange(IF Head(indices) = 0 THEN DefaultLayout
                                      ELSE VAt(layouts, Head(indices)), 4)
         IN VCat(Rep(Elem(piece_end, Head(indices), edge_end), 1),
                 ElemsOwning(layouts, Tail(indices), Tail(owned), piece_end, edge_end))

\* a model of one coefficient and one point whose elements have the given
\* layouts and own the given numbers of explicit pieces of order 1 x 1; the
\* interval of edge e, when intervals are stored, is e + 2
QueryModel(layouts, indices, owned, intervals) ==
    LET elems == ElemsOwning(layouts, indices, owned, 0, 0)
        edges == IF elems = <<>> THEN 0 ELSE VBack(elems).edge_end_index
    IN [EmptyData EXCEPT !.mCoeffs    = Rep(D(1), 1),
                         !.mPoints    = Rep(Point3d(D(0), D(0), D(0), D(1)), 1),
                         !.mPieces    = Rep(Piece2D(1 + 65536, 0, INVALID_INDEX, 0),
                                            Sum(owned)),
                         !.mLayouts   = layouts,
                         !.mEdges     = Rep(INVALID_INDEX, edges),
                         !.mIntervals = IF intervals
                                        THEN FromSeq([e \in 1..edges |-> D(e + 1)])
                                        ELSE <<>>,
                         !.mElems     = elems]

\* the models queried: no layout stored or two, up to MaxElems elements;
\* knot intervals are stored when layouts are, or at will
QueryModels ==
    UNION {{QueryModel(layouts, indices, owned, intervals) :
               indices   \in [1..n -> 0..(IF layouts = <<>> THEN 0 ELSE 1)],
               owned     \in [1..n -> 1..MaxOwned],
               intervals \in IF layouts = <<>> THEN BOOLEAN ELSE {TRUE}} :
           layouts \in {<<>>, FromSeq(<<DefaultLayout, FaceLayout(0, 2, 3, 4, 5)>>)},
           n \in 0..MaxElems}

InitQuery ==
    /\ geometry \in QueryModels
    /\ mCoeffLookup = {}
    /\ mLayoutLookup = {}
    /\ call = [op |-> "load"]
    /\ ret = 0
    /\ failed = FALSE
    /\ fault = FALSE
    /\ dictLog = {}
    /\ layoutLog = {}
    /\ stream = <<>>

\* the element indices and edge indices asked about: those of the model, the
\* two past its end, and INVALID_INDEX
ElemIndices == (0..(MaxElems + 1)) \cup {INVALID_INDEX}
EdgeIndices == (0..((MaxElems * MaxEdgeCount) + 1)) \cup {INVALID_INDEX}

\* the state after a query that yielded r, called as op on the loaded model
\* (a query is const: what it yields does not depend on earlier queries)
Answers(r, op) ==
    /\ ret' = IF r.trap THEN ret ELSE r.v
    /\ fault' = r.trap
    /\ call' = op
    /\ UNCHANGED <<geometry, mCoeffLookup, mLayoutLookup, failed, dictLog, layoutLog,
                   stream>>

EdgeBegin ==
    /\ call.op = "load"
    /\ \E elem_index \in ElemIndices :
          Answers([trap |-> FALSE, v |-> edgeBegin(geometry, elem_index)],
                  [op |-> "edgeBegin", elem_index |-> elem_index])

EdgeEnd ==
    /\ call.op = "load"
    /\ \E elem_index \in ElemIndices :
          Answers([trap |-> FALSE, v |-> edgeEnd(geometry, elem_index)],
                  [op |-> "edgeEnd", elem_index |-> elem_index])

EdgeInterval ==
    /\ call.op = "load"
    /\ \E edge_index \in EdgeIndices, oob \in F64Reads :
          Answers(edgeInterval(geometry, edge_index, oob),
                  [op |-> "edgeInterval", edge_index |-> edge_index])

PieceBegin ==
    /\ call.op = "load"
    /\ \E elem_index \in ElemIndices, oob \in U32Reads :
          Answers(pieceBegin(geometry, elem_index, oob),
                  [op |-> "pieceBegin", elem_index |-> elem_index])

SideBegin ==
    /\ call.op = "load"
    /\ \E elem_index \in ElemIndices, side \in 0..3, oob \in U32Reads :
          Answers(sideBegin(geometry, elem_index, side, oob),
                  [op |-> "sideBegin", elem_index |-> elem_index, side |-> side])

SideEnd ==
    /\ call.op = "load"
    /\ \E elem_index \in ElemIndices, side \in 0..3, oob \in U32Reads :
          Answers(sideEnd(geometry, elem_index, side, oob),
                  [op |-> "sideEnd", elem_index |-> elem_index, side |-> side])

NextQuery ==
    \/ EdgeBegin
    \/ EdgeEnd
    \/ EdgeInterval
    \/ PieceBegin
    \/ SideBegin
    \/ SideEnd
SpecQuery == InitQuery /\ [][NextQuery]_vars

\* side_range[ at ] of the resolved layout of element i of a model
ResolvedSideRange(g, i, at) == SideRange(layout(g, VAt(g.mElems, i).layout_index), at)

\* C17 (SpecQuery): for every valid model, element i and side s in 0..3,
\* sideBegin(i, s) = edgeBegin(i) + side_range[s] and sideEnd(i, s) =
\* edgeBegin(i) + side_range[s + 1] of the element's resolved layout.
C17_SidesOffsetByEdgeBegin ==
    (/\ call.op \in {"sideBegin", "sideEnd"} /\ ~fault
     /\ isValid(geometry)
     /\ ~U32GeSize(call.elem_index, elemCount(geometry)))
    => ret = U32Add(edgeBegin(geometry, call.elem_index),
                    ResolvedSideRange(geometry, call.elem_index,
                                      IF call.op = "sideBegin" THEN call.side
                                      ELSE call.side + 1))

\* C18 (SpecQuery): whenever the interval array is empty, edgeInterval(e)
\* returns exactly 1.0 for every edge index e; whenever it is non-empty, it
\* returns the interval stored at position e.
C18_UniformIntervalDefault ==
    (call.op = "edgeInterval" /\ ~fault)
    => /\ geometry.mIntervals = <<>> => ret = D(1)
       /\ (/\ geometry.mIntervals # <<>>
           /\ ~U32GeSize(call.edge_index, VSize(geometry.mIntervals)))
          => ret = VAt(geometry.mIntervals, call.edge_index)

\* C18's case: the interval of the sixth edge has been asked of a model that
\* stores the intervals 2, 3, 4, ... and the answer is 7
C18_Witness ==
    /\ call.op = "edgeInterval" /\ ~fault
    /\ geometry.mIntervals # <<>>
    /\ call.edge_index = 5
    /\ ret = D(7)

\* C19 (SpecQuery): pieceBegin(elem_index) returns INVALID_INDEX for every
\* elem_index >= elemCount(), elem_index 0 on a model without elements
\* included, as edgeBegin and edgeEnd do.
C19_PieceBeginReportsBadIndex ==
    (/\ call.op \in {"pieceBegin", "edgeBegin", "edgeEnd"} /\ ~fault
     /\ U32GeSize(call.elem_index, elemCount(geometry)))
    => ret = INVALID_INDEX


----------------------------------------------------------------------------
(* tagValue as a state machine: called once on a text.                      *)

\* bound of the texts: the length of the texts made of every character
MaxTagLen == 4

\* the characters texts are made of: NUL, 'E', '-' and '\n'
TagChars == {0, 69, Hyphen, LF}

\* s followed by as many c as make it n long
Extend(s, c, n) == s \o [i \in 1..(n - Len(s)) |-> c]

\* the texts made from s: s itself, s padded by hand to the eight bytes of a
\* tag on the wire, and s made eight and nine characters long
Forms(s) == {s, Extend(s, Hyphen, 7) \o <<LF>>, Extend(s, 69, 8), Extend(s, 69, 9)}

\* the block types of the format
BlockTypes ==
    {TagIGAFILE, TagSRFTYPE, TagVECDICT, TagPT3DW, Tag2DPIECE, TagLAYOUT, TagEDGES,
     TagKNOTINT, TagSHAPE}

TagTexts ==
    UNION {Forms(s) : s \in BlockTypes \cup UNION {[1..n -> TagChars] : n \in 0..MaxTagLen}}

InitTag ==
    /\ geometry = EmptyData
    /\ mCoeffLookup = {}
    /\ mLayoutLookup = {}
    /\ call \in {[op |-> "text", tag_text |-> s] : s \in TagTexts}
    /\ ret = 0
    /\ failed = FALSE
    /\ fault = FALSE
    /\ dictLog = {}
    /\ layoutLog = {}
    /\ stream = <<>>

\* tagValue( tag_text ); ret is the value, its bytes lowest address first
TagValue ==
    /\ call.op = "text"
    /\ ret' = tagValue(call.tag_text)
    /\ call' = [op |-> "tagValue", tag_text |-> call.tag_text]
    /\ UNCHANGED <<geometry, mCoeffLookup, mLayoutLookup, failed, fault, dictLog,
                   layoutLog, stream>>

NextTag == TagValue
SpecTag == InitTag /\ [][NextTag]_vars

\* C20 (SpecTag): for a text with k non-null leading characters the 8 bytes
\* of tagValue are its first min(k, 8) characters, then, when k < 8, '-' up
\* to the seventh byte and '\n' in the eighth; the value depends only on the
\* first 8 characters, it is the value of its own 8 bytes read as a text
\* (tagValue("EDGES") = tagValue("EDGES--\n")), and it is never 0.
C20_TagValuePadding ==
    call.op = "tagValue"
    => LET s      == call.tag_text
           nuls   == {i \in 1..Len(s) : s[i] = 0}
           k      == IF nuls = {} THEN Len(s)
                     ELSE (CHOOSE i \in nuls : \A j \in nuls : i <= j) - 1
           first8 == SubSeq(s, 1, IF Len(s) < 8 THEN Len(s) ELSE 8)
       IN /\ DOMAIN ret = 1..8
          /\ \A i \in 1..8 :
                ret[i] = IF i <= k THEN s[i] ELSE IF i = 8 THEN 10 ELSE 45
          /\ tagValue(first8) = ret
          /\ tagValue(ret) = ret
          /\ s = <<69, 68, 71, 69, 83>>
             => ret = tagValue(<<69, 68, 71, 69, 83, 45, 45, 10>>)
          /\ ret # <<0, 0, 0, 0, 0, 0, 0, 0>>

\* C20's case: tagValue("EDGES") has been computed and is "EDGES--\n"
C20_Witness ==
    /\ call.op = "tagValue"
    /\ call.tag_text = TagEDGES
    /\ ret = <<69, 68, 71, 69, 83, 45, 45, 10>>


----------------------------------------------------------------------------
(* The writer on a sink that may fail: writeIGAFile as the sequence of its  *)
(* writeData calls, one of which returns false.                             *)

\* a sink: the number of writeData calls made on it, the data of the calls
\* that succeeded, the number of calls made before each writeFinished, and
\* the call that fails (0: none)
NewSink(fail_at) == [calls |-> 0, data |-> <<>>, finished |-> <<>>, fail_at |-> fail_at]

\* writeData( data_block, length ); yields [sink, ok]
writeData(sink, data_block) ==
    LET ok == sink.calls + 1 # sink.fail_at
    IN [sink |-> [sink EXCEPT !.calls = @ + 1,
                              !.data  = IF ok THEN Append(@, data_block) ELSE @],
        ok   |-> ok]

\* the calls among the next Len(blocks) writeData calls on sink that fail
FailingWrites(sink, blocks) ==
    {k \in 1..Len(blocks) : ~writeData([sink EXCEPT !.calls = @ + k - 1], blocks[k]).ok}

\* every block of blocks written in turn, also after a write that failed
WriteOn(sink, blocks) ==
    LET failing == FailingWrites(sink, blocks)
    IN [sink |-> [sink EXCEPT !.calls = @ + Len(blocks),
                              !.data  = @ \o SelectSeq(blocks, LAMBDA x : failing = {})],
        ok   |-> failing = {}]

\* if( !writeData( ... ) ) return false; for each block of blocks in turn:
\* the writes up to the first that fails are made
WriteAll(sink, blocks) ==
    LET failing == FailingWrites(sink, blocks)
        made    == IF failing = {} THEN Len(blocks)
                   ELSE CHOOSE k \in failing : \A j \in failing : k <= j
    IN [sink |-> [sink EXCEPT !.calls = @ + made,
                              !.data  = @ \o SubSeq(blocks, 1, IF failing = {} THEN made
                                                               ELSE made - 1)],
        ok   |-> failing = {}]

\* the six writes of IGAWriter::writeBlock
BlockWrites(block_type, contents, length, id) ==
    <<Text8(BlockMarker), Text8(tagValue(block_type)), U64(id), U64(length), contents,
      U64(length)>>

\* the writes of WRITE_BLOCK( NAME, GETTER, TYPE )
FieldWrites(name, vec, kind, w) == BlockWrites(name, Encode(vec, kind, w), VSize(vec) * w, 0)

\* the writes of writeIGAFile up to the EDGES block
WritesToEdges(g) ==
    <<Text8(Magic)>>
    \o BlockWrites(TagIGAFILE, <<>>, 0, 0)
    \o FieldWrites(TagSRFTYPE, g.mSrfType, "char", 1)
    \o FieldWrites(TagVECDICT, g.mCoeffs, "f64", 8)
    \o FieldWrites(TagPT3DW, g.mPoints, "Point3d", 32)
    \o FieldWrites(Tag2DPIECE, g.mPieces, "Piece2D", 16)
    \o FieldWrites(TagLAYOUT, g.mLayouts, "FaceLayout", 20)
    \o FieldWrites(TagEDGES, g.mEdges, "u32", 4)

\* writeIGAFile that writes the KNOTINT block whatever the intervals
writeIGAFileAlwaysIntervals(sink, g) ==
    LET r == WriteAll(sink, WritesToEdges(g)
                            \o FieldWrites(TagKNOTINT, g.mIntervals, "f64", 8)
                            \o FieldWrites(TagSHAPE, g.mElems, "Elem", 12))
    IN IF ~r.ok THEN r
       ELSE [sink |-> [r.sink EXCEPT !.finished = Append(@, r.sink.calls)], ok |-> TRUE]

\* writeIGAFile that goes on writing after a write failed
writeIGAFileNoAbort(sink, g) ==
    LET r == WriteOn(sink, WritesToEdges(g)
                           \o (IF VSize(g.mIntervals) > 0
                               THEN FieldWrites(TagKNOTINT, g.mIntervals, "f64", 8)
                               ELSE <<>>)
                           \o FieldWrites(TagSHAPE, g.mElems, "Elem", 12))
    IN IF ~r.ok THEN r
       ELSE [sink |-> [r.sink EXCEPT !.finished = Append(@, r.sink.calls)], ok |-> TRUE]

\* IGAWriter::writeIGAFile on a sink; yields [sink, ok]
writeIGAFileOn(sink, g) ==
    LET r == WriteAll(sink, WritesToEdges(g)
                            \o (IF VSize(g.mIntervals) > 0
                                THEN FieldWrites(TagKNOTINT, g.mIntervals, "f64", 8)
                                ELSE <<>>)
                            \o FieldWrites(TagSHAPE, g.mElems, "Elem", 12))
    IN IF ~r.ok THEN r
       ELSE [sink |-> [r.sink EXCEPT !.finished = Append(@, r.sink.calls)], ok |-> TRUE]

\* bound of the sink: the writeData call that fails is one of the first
\* MaxWrites, or none
MaxWrites == 60

\* writeIGAFile( geometry ) on a fresh sink; stream holds one segment per
\* successful writeData call
WriteIGAFileOn ==
    /\ call.op = "load"
    /\ \E fail_at \in 0..MaxWrites :
       \E r \in {writeIGAFileOn(NewSink(fail_at), geometry)} :
          /\ stream' = r.sink.data
          /\ ret' = r.ok
          /\ call' = [op |-> "writeIGAFile", fail_at |-> fail_at, calls |-> r.sink.calls,
                      finished |-> r.sink.finished]
    /\ UNCHANGED <<geometry, mCoeffLookup, mLayoutLookup, failed, fault, dictLog,
                   layoutLog>>

NextSink == WriteIGAFileOn
SpecSink == InitCodec /\ [][NextSink]_vars

\* the blocks a container written from g holds: tag on the wire and payload
\* bytes
BlocksOf(g) ==
    <<<<TagIGAFILE \o <<10>>, 0>>,
      <<TagSRFTYPE \o <<10>>, VSize(g.mSrfType)>>,
      <<TagVECDICT \o <<10>>, 8 * VSize(g.mCoeffs)>>,
      <<TagPT3DW \o <<45, 45, 10>>, 32 * VSize(g.mPoints)>>,
      <<Tag2DPIECE \o <<10>>, 16 * VSize(g.mPieces)>>,
      <<TagLAYOUT \o <<45, 10>>, 20 * VSize(g.mLayouts)>>,
      <<TagEDGES \o <<45, 45, 10>>, 4 * VSize(g.mEdges)>>>>
    \o (IF g.mIntervals # <<>>
        THEN <<<<TagKNOTINT \o <<10>>, 8 * VSize(g.mIntervals)>>>> ELSE <<>>)
    \o <<<<TagSHAPE \o <<45, 45, 10>>, 12 * VSize(g.mElems)>>>>

\* C21 (SpecSink): a successful writeIGAFile emits the 8-byte magic and then
\* exactly one block for each of IGAFILE (length 0), SRFTYPE, VECDICT, PT3DW,
\* 2DPIECE, LAYOUT, EDGES, KNOTINT, SHAPE in that order, KNOTINT being present
\* if and only if the interval array is non-empty; every block carries the
\* frame marker, its tag, id 0, and a leading and a trailing length both
\* equal to the number of payload bytes written.
C21_WriterBlockOrder ==
    (call.op = "writeIGAFile" /\ ret = TRUE)
    => LET blocks == BlocksOf(geometry)
       IN /\ Len(stream) = 1 + 6 * Len(blocks)
          /\ stream[1] = Text8(Magic)
          /\ \A b \in 1..Len(blocks) :
                /\ stream[6 * b - 4] = Text8(<<10, 66, 76, 79, 67, 75, 58, 10>>)
                /\ stream[6 * b - 3] = Text8(blocks[b][1])
                /\ stream[6 * b - 2] = U64(0)
                /\ stream[6 * b - 1] = U64(blocks[b][2])
                /\ ByteSize(stream[6 * b]) = blocks[b][2]
                /\ stream[6 * b + 1] = U64(blocks[b][2])

\* C21's case: a model with intervals and one without have been written, in
\* nine blocks and in eight
C21_Witness ==
    /\ call.op = "writeIGAFile" /\ ret = TRUE
    /\ geometry.mIntervals # <<>>
    /\ Len(stream) = 55
    /\ stream[45] = Text8(TagKNOTINT \o <<10>>)

\* C22 (SpecSink): if some writeData call returns false, writeIGAFile returns
\* false, issues no further writeData call and does not call writeFinished;
\* if every writeData call succeeds, writeIGAFile returns true and calls
\* writeFinished exactly once, after the last write.
C22_WriterAbortsAtFirstFailure ==
    call.op = "writeIGAFile"
    => LET total == 1 + 6 * Len(BlocksOf(geometry))
       IN IF call.fail_at \in 1..total
          THEN /\ ret = FALSE
               /\ call.calls = call.fail_at
               /\ Len(stream) = call.fail_at - 1
               /\ call.finished = <<>>
          ELSE /\ ret = TRUE
               /\ call.calls = total
               /\ call.finished = <<total>>

\* C22's case: the payload write of the PT3DW block has failed
C22_Witness ==
    /\ call.op = "writeIGAFile" /\ ret = FALSE
    /\ call.fail_at = 24
    /\ geometry.mPoints # <<>>
    /\ Len(stream) = 23


----------------------------------------------------------------------------
(* Further properties of the builder.                                       *)

\* bound of the runs that finish several elements: the edges added
MaxElemEdges == 9

\* addEdge( INVALID_INDEX, -1.0 ): a boundary edge without interval
AddBoundaryEdge ==
    /\ ~fault
    /\ VSize(geometry.mEdges) < MaxElemEdges
    /\ Returns(addEdge(Cur, INVALID_INDEX, D(-1)),
               [op |-> "addEdge", elem |-> INVALID_INDEX, knot_interval |-> D(-1)])
    /\ UNCHANGED <<fault, dictLog, layoutLog>>

\* finishElem with a stored, an unstored or no layout index, for up to
\* MaxElems elements
FinishElems ==
    /\ ~fault
    /\ VSize(geometry.mElems) < MaxElems
    /\ \E layout_index \in {0, 1, 2, INVALID_INDEX} :
          Returns(finishElem(Cur, layout_index),
                  [op |-> "finishElem", layout_index |-> layout_index])
    /\ UNCHANGED <<fault, dictLog, layoutLog>>

NextFinish ==
    \/ AddBoundaryEdge
    \/ AddExplicitPieceOf(BuildExplicit)
    \/ GetLayoutIndexOf(BuildLayouts)
    \/ FinishElems
SpecFinish == InitBuild /\ [][NextFinish]_vars

\* C23 (SpecFinish): finishElem(layout_index) appends an element exactly
\* when layout_index addresses a stored layout and the number of edges added
\* since the previous element equals that layout's side_range[4]; the new
\* element then has piece_end_index = pieceCount(), edge_end_index =
\* edgeCount() and the given layout_index, and the value returned is the
\* previous elemCount(); otherwise INVALID_INDEX is returned and the element
\* array is unchanged.
C23_FinishElemConsistent ==
    [][call'.op = "finishElem"
       => LET layout_index == call'.layout_index
              stored       == layout_index >= 0 /\ layout_index < VSize(geometry.mLayouts)
              count        == VSize(geometry.mElems)
          IN IF stored /\ EdgesSinceLastElem(geometry)
                          = VAt(geometry.mLayouts, layout_index).side_range[5]
             THEN /\ ret' = count
                  /\ VSize(geometry'.mElems) = count + 1
                  /\ \A i \in 0..(count - 1) :
                        VAt(geometry'.mElems, i) = VAt(geometry.mElems, i)
                  /\ VAt(geometry'.mElems, count)
                     = [piece_end_index |-> VSize(geometry.mPieces),
                        layout_index    |-> layout_index,
                        edge_end_index  |-> VSize(geometry.mEdges)]
             ELSE /\ ret' = INVALID_INDEX
                  /\ geometry'.mElems = geometry.mElems]_vars

\* C23's case: a second element, of five edges and the second stored layout,
\* has been finished
C23_Witness ==
    /\ call.op = "finishElem" /\ call.layout_index = 1
    /\ ret = 1
    /\ VSize(geometry.mElems) = 2
    /\ VBack(geometry.mElems).edge_end_index - VAt(geometry.mElems, 0).edge_end_index = 5


----------------------------------------------------------------------------
(* The validator on models whose element ranges are arbitrary.              *)

\* yields [trap, v]; oob: what mElems[ elem_index ] does out of bounds
pieceEnd(g, elem_index, oob) ==
    IF U32GeSize(elem_index, VSize(g.mElems)) THEN oob
    ELSE [trap |-> FALSE, v |-> VAt(g.mElems, elem_index).piece_end_index]

\* the end indices elements are given, and the numbers of edges and pieces
RangeEdgeEnds == {0, 4, 8}
RangePieceEnds == {0, 1, 2}

\* a model of one coefficient and one point, with no layout stored, that has
\* the given numbers of boundary edges and explicit pieces and the given
\* elements
RangeModel(edges, pieces, elems) ==
    [EmptyData EXCEPT !.mCoeffs = Rep(D(1), 1),
                      !.mPoints = Rep(Point3d(D(0), D(0), D(0), D(1)), 1),
                      !.mPieces = Rep(Piece2D(1 + 65536, 0, INVALID_INDEX, 0), pieces),
                      !.mEdges  = Rep(INVALID_INDEX, edges),
                      !.mElems  = FromSeq(elems)]

RangeModels ==
    {RangeModel(edges, pieces, elems) :
        edges \in RangeEdgeEnds, pieces \in RangePieceEnds,
        elems \in UNION {[1..n -> {Elem(p, 0, e) : p \in RangePieceEnds, e \in RangeEdgeEnds}] :
                         n \in 0..MaxElems}}

InitRanges ==
    /\ geometry \in RangeModels
    /\ mCoeffLookup = {}
    /\ mLayoutLookup = {}
    /\ call = [op |-> "load"]
    /\ ret = 0
    /\ failed = FALSE
    /\ fault = FALSE
    /\ dictLog = {}
    /\ layoutLog = {}
    /\ stream = <<>>

NextRanges == IsValid
SpecRanges == InitRanges /\ [][NextRanges]_vars

\* the elements of g whose half-open range [begin, end) holds index x
Owners(g, x, Begin(_), End(_)) ==
    {i \in 0..(elemCount(g) - 1) : Begin(i) <= x /\ x < End(i)}

\* C24 (SpecRanges): for every model on which isValid() returns true,
\* edgeBegin(0) = 0, edgeBegin(i) <= edgeEnd(i) and edgeBegin(i+1) =
\* edgeEnd(i) for every element i, and edgeEnd of the last element equals
\* edgeCount(); the same holds for pieceBegin/pieceEnd and pieceCount(), so
\* every edge and every piece belongs to exactly one element (a model with
\* edges or pieces but no element is invalid).
C24_JaggedRangesPartition ==
    (call.op = "isValid" /\ ret.ok)
    => LET g    == geometry
           n    == elemCount(g)
           none == [trap |-> TRUE, v |-> INVALID_INDEX]
           EB(i) == edgeBegin(g, i)
           EE(i) == edgeEnd(g, i)
           PB(i) == pieceBegin(g, i, none).v
           PE(i) == pieceEnd(g, i, none).v
       IN /\ n = 0 => (VSize(g.mEdges) = 0 /\ VSize(g.mPieces) = 0)
          /\ n > 0 => /\ EB(0) = 0 /\ PB(0) = 0
                      /\ EE(n - 1) = VSize(g.mEdges)
                      /\ PE(n - 1) = VSize(g.mPieces)
          /\ \A i \in 0..(n - 1) :
                /\ 0 <= EB(i) /\ EB(i) <= EE(i)
                /\ 0 <= PB(i) /\ PB(i) <= PE(i)
                /\ ~pieceBegin(g, i, none).trap /\ ~pieceEnd(g, i, none).trap
          /\ \A i \in 0..(n - 2) : EB(i + 1) = EE(i) /\ PB(i + 1) = PE(i)
          /\ \A e \in 0..(VSize(g.mEdges) - 1) : Cardinality(Owners(g, e, EB, EE)) = 1
          /\ \A p \in 0..(VSize(g.mPieces) - 1) : Cardinality(Owners(g, p, PB, PE)) = 1

\* C24's case: a model of two elements that own four edges and one piece
\* each has been found valid
C24_Witness ==
    /\ call.op = "isValid" /\ ret.ok
    /\ elemCount(geometry) = 2
    /\ VSize(geometry.mEdges) = 8 /\ VSize(geometry.mPieces) = 2
    /\ VAt(geometry.mElems, 0) = Elem(1, 0, 4)


----------------------------------------------------------------------------
(* Containers with a known block twice or not at all: a container written   *)
(* from a model gets a further block of a known type, or loses one of its   *)
(* blocks, and is read.                                                     *)

\* an element of each kind, other than those the written models hold
AnElement(kind) ==
    CASE kind = "char"       -> 121
      [] kind = "f64"        -> D(7)
      [] kind = "u32"        -> 0
      [] kind = "Point3d"    -> Point3d(D(7), D(7), D(7), D(1))
      [] kind = "Piece2D"    -> Piece2D(2 + 65536, 0, INVALID_INDEX, 0)
      [] kind = "FaceLayout" -> FaceLayout(0, 2, 3, 4, 5)
      [] kind = "Elem"       -> Elem(0, 0, 0)

\* the block types that are read into a field
FieldTags ==
    {TagSRFTYPE, TagVECDICT, TagPT3DW, Tag2DPIECE, TagLAYOUT, TagEDGES, TagKNOTINT,
     TagSHAPE}

\* a block of a known type, holding no element or one, is put after block
\* at - 1 of the container
RepeatBlock ==
    /\ call.op = "writeIGAFile"
    /\ \E name \in FieldTags, n \in 0..1, at \in 3..(Len(stream) + 1) :
          LET field == BlockTarget(tagValue(name))
              vec   == Rep(AnElement(ElemKind(field)), n)
          IN /\ stream' = SubSeq(stream, 1, at - 1)
                          \o <<WRITE_BLOCK(name, vec, ElemKind(field), ElemSize(field))>>
                          \o SubSeq(stream, at, Len(stream))
             /\ call' = [op |-> "repeatBlock", tag |-> tagValue(name), field |-> field,
                         vec |-> vec, at |-> at]
    /\ UNCHANGED <<geometry, mCoeffLookup, mLayoutLookup, ret, failed, fault, dictLog,
                   layoutLog>>

\* block at of the container is left out
DropBlock ==
    /\ call.op = "writeIGAFile"
    /\ \E at \in 3..Len(stream) :
          /\ stream' = SubSeq(stream, 1, at - 1) \o SubSeq(stream, at + 1, Len(stream))
          /\ call' = [op |-> "dropBlock", at |-> at]
    /\ UNCHANGED <<geometry, mCoeffLookup, mLayoutLookup, ret, failed, fault, dictLog,
                   layoutLog>>

NextRepeat ==
    \/ WriteIGAFile
    \/ RepeatBlock
    \/ DropBlock
    \/ ReadIGAFile
SpecRepeat == InitForeign /\ [][NextRepeat]_vars

\* the blocks of a container that have this tag, and those after block from
BlocksWith(segments, tag) == {k \in 2..Len(segments) : TagOf(segments[k]) = tag}
BlocksAfter(segments, tag, from) == {k \in BlocksWith(segments, tag) : k > from}

\* the last SRFTYPE block of a container, 0 when it has none
LastSurface(segments) ==
    LET surfaces == BlocksWith(segments, tagValue(TagSRFTYPE))
    IN IF surfaces = {} THEN 0 ELSE CHOOSE k \in surfaces : \A j \in surfaces : j <= k

\* the elements a block holds: its payload bytes taken as elements of the
\* field's type
Held(block, field) ==
    Decode(SubSeq(block, 5, Len(block) - 1), ElemKind(field), ElemSize(field))

ArrayFields == {"mCoeffs", "mPoints", "mPieces", "mLayouts", "mEdges", "mIntervals", "mElems"}

\* C25 (SpecRepeat): after readIGAFile has read a known-tag block of declared
\* length L, the field holds exactly the L / element-size elements of that
\* block's payload, its previous contents being discarded; a block of length
\* 0 leaves the field empty even when an earlier block with the same tag was
\* non-empty.  (Seen at the end of the read, for a block that no later block
\* of its tag and no later SRFTYPE block follows.)
C25_KnownBlockReplacesField ==
    [][(/\ call'.op = "readIGAFile" /\ call.op = "repeatBlock"
        /\ call.field # "mSrfType"
        /\ BlocksAfter(stream, call.tag, call.at) = {}
        /\ LastSurface(stream) < call.at)
       => (ret' = TRUE /\ geometry'[call.field] = call.vec)]_vars

\* C26 (SpecRepeat): after a successful readIGAFile, every array field
\* reflects only blocks that come after the last SRFTYPE block of the stream
\* and is empty if there is none after it, and the surface type equals the
\* payload of that last SRFTYPE block ("unknown" when the stream has none).
C26_SurfaceTypeResets ==
    [][(call'.op = "readIGAFile" /\ ret' = TRUE)
       => LET last == LastSurface(stream)
          IN /\ geometry'.mSrfType = IF last = 0 THEN Chars(<<117, 110, 107, 110, 111, 119, 110>>)
                                     ELSE Held(stream[last], "mSrfType")
             /\ \A field \in ArrayFields :
                   LET after == {k \in 3..Len(stream) :
                                    k > last /\ BlockTarget(TagOf(stream[k])) = field}
                   IN IF after = {} THEN geometry'[field] = <<>>
                      ELSE \/ geometry'[field] = <<>>
                           \/ \E k \in after : geometry'[field] = Held(stream[k], field)]_vars

\* C26's case: a container in which a second SRFTYPE block follows the
\* PT3DW block has been read: the coefficients and points are gone, the
\* edges are kept
C26_Witness ==
    /\ call.op = "readIGAFile" /\ ret = TRUE
    /\ LastSurface(stream) = 6
    /\ VSize(Held(stream[4], "mCoeffs")) = 2
    /\ geometry.mCoeffs = <<>> /\ geometry.mPoints = <<>>
    /\ VSize(geometry.mEdges) = 4
    /\ geometry.mSrfType = Chars(<<121>>)


----------------------------------------------------------------------------
(* Further properties of the builder's results.                             *)

\* C27 (SpecExplicit): addExplicitPiece called with s_order <= 0, s_order =
\* 0 in particular, and any coefficient vector returns INVALID_INDEX as an
\* ordinary result, storing nothing; no builder operation reaches an
\* undefined or faulting step such as a division by zero.
C27_NonPositiveOrderReturns ==
    [][/\ ~fault'
       /\ (call'.op = "addExplicitPiece" /\ call'.s_order <= 0)
          => (ret' = INVALID_INDEX /\ geometry' = geometry)]_vars

BuilderOps ==
    {"addCoeffs", "getDictionaryIndex", "getLayoutIndex", "addExplicitPiece",
     "addTensorPiece", "addEdge", "finishElem"}

\* C28 (SpecCreator): whenever addCoeffs, getDictionaryIndex, getLayoutIndex,
\* addExplicitPiece, addTensorPiece, addEdge or finishElem returns
\* INVALID_INDEX, every array of the model and both lookup tables are as they
\* were before the call.
C28_FailedCallChangesNothing ==
    [][(call'.op \in BuilderOps /\ ~fault' /\ ret' = INVALID_INDEX)
       => /\ geometry' = geometry
          /\ mCoeffLookup' = mCoeffLookup
          /\ mLayoutLookup' = mLayoutLookup]_vars

\* vec is the beginning of longer: nothing stored in vec was changed or removed
KeepsStored(vec, longer) ==
    /\ VSize(vec) <= VSize(longer)
    /\ \A k \in 0..(VSize(vec) - 1) : VAt(longer, k) = VAt(vec, k)

\* every entry (v -> i) of the coefficient lookup table lies in coeffs and
\* coeffs[i .. i + |v|) = v
LookupInStep(coeffs, lookup) ==
    \A e \in lookup :
       /\ e.val # INVALID_INDEX
       /\ e.val + VSize(e.key) <= VSize(coeffs)
       /\ \A k \in 0..(VSize(e.key) - 1) : VAt(coeffs, e.val + k) = VAt(e.key, k)

\* C29 (SpecCreator): every entry (v -> i) of the coefficient lookup table
\* satisfies i + |v| <= |coeffs| and coeffs[i .. i + |v|) = v, and no builder
\* operation modifies or removes an already stored coefficient, point, piece,
\* layout, edge, interval or element.
C29_LookupInStepAppendOnly ==
    [][/\ LookupInStep(geometry'.mCoeffs, mCoeffLookup')
       /\ \A field \in {"mCoeffs", "mPoints", "mPieces", "mLayouts", "mEdges",
                        "mIntervals", "mElems"} :
             KeepsStored(geometry[field], geometry'[field])]_vars

\* C29's case: a second vector was stored behind the first, both are in the
\* lookup table, and a point, a piece, edges and an element are stored
C29_Witness ==
    /\ \E e1, e2 \in mCoeffLookup : e1.val = 0 /\ e2.val = VSize(e1.key) /\ VSize(e2.key) = 2
    /\ VSize(geometry.mCoeffs) = 3
    /\ geometry.mPoints # <<>> /\ geometry.mPieces # <<>>
    /\ geometry.mLayouts # <<>> /\ geometry.mElems # <<>>
    /\ VSize(geometry.mEdges) = 4 /\ VSize(geometry.mIntervals) = 4


----------------------------------------------------------------------------
(* The edges of an element by side: the validator on models whose stored    *)
(* layouts need not begin at 0.                                             *)

elemEdgeCount(g, elem_index) ==
    SideRange(layout(g, VAt(g.mElems, elem_index).layout_index), 4)

elemEdgesOnSide(g, elem_index, side) ==
    LET elem_layout == layout(g, VAt(g.mElems, elem_index).layout_index)
    IN U32Sub(SideRange(elem_layout, side + 1), SideRange(elem_layout, side))

\* layout arrays: none, the default layout alone, and the default layout
\* followed by a layout of five edges whose first side begins at 0 or at 1
SideLayoutArrays ==
    LayoutArrays \cup {FromSeq(<<DefaultLayout, FaceLayout(1, 2, 3, 4, 5)>>)}

SideModels ==
    {ElemModel(layouts, counts, indices) :
        layouts \in SideLayoutArrays,
        counts  \in UNION {[1..n -> 3..MaxEdgeCount] : n \in 1..MaxElems},
        indices \in {<<0, 0>>, <<1, 0>>, <<0, 1>>}}

InitSides ==
    /\ geometry \in SideModels
    /\ mCoeffLookup = {}
    /\ mLayoutLookup = {}
    /\ call = [op |-> "load"]
    /\ ret = 0
    /\ failed = FALSE
    /\ fault = FALSE
    /\ dictLog = {}
    /\ layoutLog = {}
    /\ stream = <<>>

NextSides == IsValid
SpecSides == InitSides /\ [][NextSides]_vars

\* C30 (SpecSides): for every model isValid() accepts and every element i,
\* the sum over the four sides of elemEdgesOnSide(i, s) equals
\* elemEdgeCount(i), which equals edgeEnd(i) - edgeBegin(i); validation
\* admits no stored layout whose side_range[0] is not 0.
C30_SidesSumToEdgeCount ==
    (call.op = "isValid" /\ ret.ok)
    => /\ \A i \in 0..(VSize(geometry.mElems) - 1) :
             /\ elemEdgesOnSide(geometry, i, 0) + elemEdgesOnSide(geometry, i, 1)
                + elemEdgesOnSide(geometry, i, 2) + elemEdgesOnSide(geometry, i, 3)
                = elemEdgeCount(geometry, i)
             /\ elemEdgeCount(geometry, i) = edgeEnd(geometry, i) - edgeBegin(geometry, i)
       /\ \A k \in 0..(VSize(geometry.mLayouts) - 1) :
             SideRange(VAt(geometry.mLayouts, k), 0) = 0

====
